---- MODULE Spec2Model ----
(***************************************************************************)
(* A model of the tree-walking evaluator of alii/evaluate: the lexical     *)
(* environment (Scope), the function value (RuntimeFunction), the memory   *)
(* tracker, and the evaluator's node handlers that create, use and release *)
(* them.                                                                   *)
(***************************************************************************)
EXTENDS Integers, Sequences, FiniteSets, TLC

VARIABLES
    scopes,           \* every Scope constructed so far, by identity (index)
    funcs,            \* every RuntimeFunction constructed so far, by identity
    activeScopes,     \* MemoryTracker.activeScopes
    activeFunctions,  \* MemoryTracker.activeFunctions
    globalObj,        \* the caller's globals table handed to evaluate()
    stack,            \* the evaluator's nest of open constructs, innermost last
    status,           \* "idle" | "running" | "done" | "failed"
    acc,              \* the value of the expression evaluated last
    labelStack,       \* nodes.ts: the module's stack of label names
    currentClassContext, \* evaluateAST's variable of that name
    classes,          \* the classes evaluateClassDefinition has built
    objects,          \* the objects NewExpression has created
    lastOp,           \* the node handler that ran last, with its outcome
    steps,            \* how many node handlers have run
    limits,           \* the bounds of the runs being explored
    inflight,         \* the operand evaluations Promise.all is waiting for
    session,          \* the program and the run of it, when a program is run twice
    suspended         \* the evaluate() calls that wait at an await while another runs

vars == <<scopes, funcs, activeScopes, activeFunctions, globalObj, stack, status,
          acc, labelStack, currentClassContext, classes, objects, lastOp, steps,
          limits, inflight, session, suspended>>

----------------------------------------------------------------------------
(* Bounds *)

\* runs over environments, functions and names
MaxScopes == 4
MaxFuncs == 2
MaxStack == 4
MaxSteps == 6
\* runs over control flow
MaxCtlScopes == 7
MaxCtlFuncs == 1
MaxCtlStack == 7
MaxCtlSteps == 7

----------------------------------------------------------------------------
(* Values: a tag and a number, so that any two values compare *)

Undefined == <<"undefined", 0>>
Num(n) == <<"number", n>>
Host(k) == <<"host", k>>
Wrapper(f) == <<"function", f>>
\* an Error object, and the carriers of runtime.ts, which are Errors too
ErrorObject == <<"Error", 0>>
ReturnValue == <<"ReturnValue", 0>>
BreakValue == <<"BreakValue", 0>>
ContinueValue == <<"ContinueValue", 0>>
Null == <<"null", 0>>
Obj(k) == <<"object", k>>
Class(c) == <<"function-class", c>>
\* the promise an async function hands its caller
PromiseValue == <<"promise", 0>>
\* a ClassContext, and the null that stands for none
ClassContext(thisObj, superClass) ==
    [thisObj |-> thisObj, superClass |-> superClass, set |-> TRUE]
NullContext == [thisObj |-> Undefined, superClass |-> 0, set |-> FALSE]

UserNames == {"x", "f"}

\* the host values the evaluator itself injects
HostPromise == Host(1)
HostError == Host(2)
HostConsole == Host(3)
HostObject == Host(4)
HostArray == Host(5)
HostTimer == Host(6)
\* a value supplied by the caller under a name the evaluator also knows
CallerConsole == Host(7)

\* F of the value of x: x is evaluated once, however often F uses it
With(x, F(_)) == CHOOSE r \in {F(v) : v \in {x}} : TRUE

----------------------------------------------------------------------------
(* Map and Set of the host language, in insertion order *)

Range(s) == {s[i] : i \in 1..Len(s)}

MapHas(m, k) == \E i \in 1..Len(m) : m[i][1] = k

MapGet(m, k) ==
    IF MapHas(m, k)
    THEN m[CHOOSE i \in 1..Len(m) : m[i][1] = k][2]
    ELSE Undefined

MapSet(m, k, v) ==
    IF MapHas(m, k)
    THEN [i \in 1..Len(m) |-> IF m[i][1] = k THEN <<k, v>> ELSE m[i]]
    ELSE Append(m, <<k, v>>)

MapKeys(m) == {m[i][1] : i \in 1..Len(m)}

SetAdd(s, x) == IF x \in Range(s) THEN s ELSE Append(s, x)

SetDelete(s, x) == SelectSeq(s, LAMBDA y : y # x)

----------------------------------------------------------------------------
(* functions.ts *)

getRuntimeFunction(v) == IF v[1] = "function" THEN v[2] ELSE 0

----------------------------------------------------------------------------
(* The heap: scopes, functions and the tracker, as one value the recursive *)
(* operations thread through                                               *)

Heap == [scopes |-> scopes, funcs |-> funcs,
         activeScopes |-> activeScopes, activeFunctions |-> activeFunctions]

SetHeap(h) ==
    /\ scopes' = h.scopes
    /\ funcs' = h.funcs
    /\ activeScopes' = h.activeScopes
    /\ activeFunctions' = h.activeFunctions

trackScope(h, s) == [h EXCEPT !.activeScopes = @ \cup {s}]

\* an untrackScope that leaves the tracker's set as it is
untrackScope_KeepsEntry(h, s) == h

untrackScope(h, s) == [h EXCEPT !.activeScopes = @ \ {s}]

MT_trackFunction(h, f) == [h EXCEPT !.activeFunctions = @ \cup {f}]
MT_untrackFunction(h, f) == [h EXCEPT !.activeFunctions = @ \ {f}]

trackFunction(h, s, f) == [h EXCEPT !.scopes[s].functions = SetAdd(@, f)]
untrackFunction(h, s, f) == [h EXCEPT !.scopes[s].functions = SetDelete(@, f)]

addRef(h, s) == [h EXCEPT !.scopes[s].refCount = @ + 1]

RECURSIVE release(_, _)
RECURSIVE cleanup(_, _)
RECURSIVE destroy(_, _)
RECURSIVE cleanupVariables(_, _, _)
RECURSIVE cleanupFunctions(_, _, _)
RECURSIVE cleanupChildren(_, _, _)

release(h, s) ==
    With([h EXCEPT !.scopes[s].refCount = @ - 1], LAMBDA h1 :
        IF h1.scopes[s].refCount = 0 THEN cleanup(h1, s) ELSE h1)

\* RuntimeFunction.destroy without its test of this.destroyed
destroy_EveryCall(h, f) ==
    With(h, LAMBDA h0 :
        With(release([h0 EXCEPT !.funcs[f].destroyed = TRUE], h0.funcs[f].scope),
             LAMBDA h2 :
                 untrackFunction(MT_untrackFunction(h2, f), h2.funcs[f].ownerScope, f)))

destroy(h, f) ==
    With(h, LAMBDA h0 :
        IF h0.funcs[f].destroyed
        THEN h0
        ELSE With(release([h0 EXCEPT !.funcs[f].destroyed = TRUE], h0.funcs[f].scope),
                  LAMBDA h2 :
                      untrackFunction(MT_untrackFunction(h2, f),
                                      h2.funcs[f].ownerScope, f)))

removeChild(h, p, c) ==
    With(h, LAMBDA h0 :
        IF c \in Range(h0.scopes[p].children)
        THEN release([h0 EXCEPT !.scopes[p].children = SetDelete(@, c)], p)
        ELSE h0)

\* for (const value of this.variables.values()): the i-th entry of the live map
cleanupVariables(h, s, i) ==
    With(h, LAMBDA h0 :
        IF i > Len(h0.scopes[s].variables)
        THEN h0
        ELSE LET rf == getRuntimeFunction(h0.scopes[s].variables[i][2])
             IN  cleanupVariables(IF rf # 0 THEN destroy(h0, rf) ELSE h0, s, i + 1))

\* for (const func of this.functions): the next entry of the live set
cleanupFunctions(h, s, visited) ==
    With(h, LAMBDA h0 :
        LET live == SelectSeq(h0.scopes[s].functions, LAMBDA f : f \notin visited)
        IN  IF live = <<>>
            THEN h0
            ELSE cleanupFunctions(destroy(h0, live[1]), s, visited \cup {live[1]}))

\* for (const child of this.children): the next entry of the live set
cleanupChildren(h, s, visited) ==
    With(h, LAMBDA h0 :
        LET live == SelectSeq(h0.scopes[s].children, LAMBDA c : c \notin visited)
        IN  IF live = <<>>
            THEN h0
            ELSE cleanupChildren(release(h0, live[1]), s, visited \cup {live[1]}))

cleanup(h, s) ==
    With(cleanupVariables(h, s, 1), LAMBDA h1 :
    With(cleanupFunctions([h1 EXCEPT !.scopes[s].variables = <<>>], s, {}), LAMBDA h3 :
    With([h3 EXCEPT !.scopes[s].functions = <<>>], LAMBDA h4 :
    With(IF h4.scopes[s].parent # 0
         THEN removeChild(h4, h4.scopes[s].parent, s)
         ELSE h4, LAMBDA h5 :
    With(cleanupChildren(h5, s, {}), LAMBDA h6 :
        untrackScope([h6 EXCEPT !.scopes[s].children = <<>>], s))))))

\* an addChild that takes no reference on the parent
addChild_TakesNoRef(h, p, c) == [h EXCEPT !.scopes[p].children = SetAdd(@, c)]

addChild(h, p, c) == addRef([h EXCEPT !.scopes[p].children = SetAdd(@, c)], p)

DefineTarget_Outer(h, s) == IF h.scopes[s].parent # 0 THEN h.scopes[s].parent ELSE s

\* the environment a definition lands in
DefineTarget(h, s) == s

define(h, s, name, value) ==
    With(h, LAMBDA h0 :
        LET t == DefineTarget(h0, s)
            old == MapGet(h0.scopes[t].variables, name)
        IN  With(IF getRuntimeFunction(old) # 0
                 THEN destroy(h0, getRuntimeFunction(old))
                 ELSE h0, LAMBDA h1 :
            With([h1 EXCEPT !.scopes[t].variables = MapSet(@, name, value)], LAMBDA h2 :
                IF getRuntimeFunction(value) # 0
                THEN trackFunction(h2, t, getRuntimeFunction(value))
                ELSE h2)))

RECURSIVE defineFromObject(_, _, _)
defineFromObject(h, s, obj) ==
    IF obj = <<>>
    THEN h
    ELSE defineFromObject(define(h, s, obj[1][1], obj[1][2]), s, Tail(obj))

\* Scope.assign that binds the name in the root scope when no scope has it
RECURSIVE assign_CreatesGlobal(_, _, _, _)
assign_CreatesGlobal(h, s, name, value) ==
    With(h, LAMBDA h0 :
        IF MapHas(h0.scopes[s].variables, name) \/ h0.scopes[s].parent = 0
        THEN [ok |-> TRUE, h |-> define(h0, s, name, value)]
        ELSE assign_CreatesGlobal(h0, h0.scopes[s].parent, name, value))

\* Scope.assign without the destruction of the function overwritten
RECURSIVE assign_NoDestroy(_, _, _, _)
assign_NoDestroy(h, s, name, value) ==
    With(h, LAMBDA h0 :
        IF MapHas(h0.scopes[s].variables, name)
        THEN With([h0 EXCEPT !.scopes[s].variables = MapSet(@, name, value)],
                  LAMBDA h2 :
                      [ok |-> TRUE,
                       h |-> IF getRuntimeFunction(value) # 0
                             THEN trackFunction(h2, s, getRuntimeFunction(value))
                             ELSE h2])
        ELSE IF h0.scopes[s].parent # 0
             THEN assign_NoDestroy(h0, h0.scopes[s].parent, name, value)
             ELSE [ok |-> FALSE, h |-> h0])

\* Scope.assign that, on a hit, binds the name in the scope it was called on
assign_BindsHere(h, s, name, value) ==
    With(h, LAMBDA h0 :
        LET RECURSIVE Binds(_)
            Binds(t) == \/ MapHas(h0.scopes[t].variables, name)
                        \/ (h0.scopes[t].parent # 0 /\ Binds(h0.scopes[t].parent))
        IN  IF Binds(s)
            THEN [ok |-> TRUE, h |-> define(h0, s, name, value)]
            ELSE [ok |-> FALSE, h |-> h0])

RECURSIVE assign(_, _, _, _)
assign(h, s, name, value) ==
    With(h, LAMBDA h0 :
        IF MapHas(h0.scopes[s].variables, name)
        THEN LET old == MapGet(h0.scopes[s].variables, name)
             IN  With(IF getRuntimeFunction(old) # 0
                      THEN destroy(h0, getRuntimeFunction(old))
                      ELSE h0, LAMBDA h1 :
                 With([h1 EXCEPT !.scopes[s].variables = MapSet(@, name, value)],
                      LAMBDA h2 :
                          [ok |-> TRUE,
                           h |-> IF getRuntimeFunction(value) # 0
                                 THEN trackFunction(h2, s, getRuntimeFunction(value))
                                 ELSE h2]))
        ELSE IF h0.scopes[s].parent # 0
             THEN assign(h0, h0.scopes[s].parent, name, value)
             ELSE [ok |-> FALSE, h |-> h0])

RECURSIVE lookup(_, _, _)
lookup(h, s, name) ==
    IF MapHas(h.scopes[s].variables, name)
    THEN MapGet(h.scopes[s].variables, name)
    ELSE IF h.scopes[s].parent # 0
         THEN lookup(h, h.scopes[s].parent, name)
         ELSE Undefined

DEFAULT_SCOPE ==
    << <<"Promise", HostPromise>>, <<"Error", HostError>>,
       <<"ReferenceError", HostError>>, <<"SyntaxError", HostError>>,
       <<"TypeError", HostError>>, <<"setTimeout", HostTimer>>,
       <<"setInterval", HostTimer>>, <<"console", HostConsole>> >>

\* what the constructor of a parentless Scope adds to the caller's table
RootDefaults == DEFAULT_SCOPE

\* new Scope(parentScope, initial): the heap with the new scope, whose
\* identity is Len(h.scopes) + 1
NewScope(h, p, initial) ==
    With([h EXCEPT !.scopes = Append(@,
             [variables |-> initial, parent |-> p, children |-> <<>>,
              functions |-> <<>>, refCount |-> 1])], LAMBDA h1 :
        trackScope(IF p # 0
                   THEN addChild(h1, p, Len(h1.scopes))
                   ELSE defineFromObject(h1, Len(h1.scopes), RootDefaults),
                   Len(h1.scopes)))

\* new RuntimeFunction(params, body, scope, evaluator, isAsync): identity
\* Len(h.funcs) + 1; of the evaluator closure the record keeps the class
\* context it carries
NewFunction(h, params, s, evaluator) ==
    With([h EXCEPT !.funcs = Append(@,
             [params |-> params, scope |-> s, ownerScope |-> s,
              evaluator |-> evaluator, destroyed |-> FALSE])], LAMBDA h1 :
        trackFunction(MT_trackFunction(addRef(h1, s), Len(h1.funcs)), s, Len(h1.funcs)))

\* Scope.getVariables(): the entries of this scope's own name table
getVariables(h, s) == h.scopes[s].variables

----------------------------------------------------------------------------
(* The evaluator: evaluateAST and the node handlers of evaluateNode.  The  *)
(* program being run is not fixed: at every point the evaluator may meet   *)
(* any statement the parser would accept there.  The stack holds the       *)
(* constructs that are open; a frame's env is the scope its statements are *)
(* evaluated in, its own the scope its finally clause releases.            *)

\* the globals tables callers hand in
GlobalTables ==
    { <<>>,
      << <<"x", Num(1)>> >>,
      << <<"console", CallerConsole>> >> }

ParamLists == { << "p" >> }

Labels == {"a", "b"}

Op(op, name) == [op |-> op, name |-> name, defs |-> {}]

\* what leaves a construct: a thrown Error, or a thrown carrier
Sig(type, label, value) == [type |-> type, label |-> label, value |-> value]

NoSig == Sig("none", "", Undefined)

\* the object a catch clause receives
Thrown(sig) ==
    CASE sig.type = "throw" -> sig.value
      [] sig.type = "return" -> ReturnValue
      [] sig.type = "break" -> BreakValue
      [] sig.type = "continue" -> ContinueValue

Frame(kind, env, own, f) ==
    [kind |-> kind, env |-> env, own |-> own, fn |-> f, label |-> "",
     handler |-> FALSE, finalizer |-> FALSE, pending |-> NoSig,
     recv |-> Undefined, cls |-> 0, construct |-> FALSE,
     cases |-> <<>>, idx |-> 0, disc |-> Undefined]

CurScope == stack[Len(stack)].env

Bound(h, s, name) ==
    LET RECURSIVE B(_)
        B(t) == \/ MapHas(h.scopes[t].variables, name)
                \/ (h.scopes[t].parent # 0 /\ B(h.scopes[t].parent))
    IN  B(s)

\* the values an initialiser, right-hand side, argument or return expression
\* yields: a literal, nothing, or the value of the expression evaluated last
ExprValues == {Num(1), Undefined, acc}

\* the evaluator's state, as one value the propagation of a signal threads
Ev == [h |-> Heap, stack |-> stack, labels |-> labelStack, status |-> status,
       acc |-> acc, ctx |-> currentClassContext, classes |-> classes,
       objects |-> objects]

getCurrentLabel(ls) == IF Len(ls) > 0 THEN ls[Len(ls)] ELSE ""

Pop(e) == [e EXCEPT !.stack = SubSeq(@, 1, Len(@) - 1)]

\* result !== null && typeof result === 'object'
IsObject(v) ==
    v[1] \in {"object", "promise", "Error", "ReturnValue", "BreakValue", "ContinueValue"}

\* constructorMethod: the result of runtimeFunc.call if it is an object, else this
ConstructorResult(result, this) == IF IsObject(result) THEN result ELSE this

\* case 'NewExpression': the constructor's result if it is an object, else
\* the instance
NewExpressionResult(result, instance) == IF IsObject(result) THEN result ELSE instance

\* what awaiting v yields, where settled is what a promise settles to
Await(v, settled) == IF v = PromiseValue THEN settled ELSE v

\* the value of the expression that made the call of frame fr, when the body
\* has ended with value v: RuntimeFunction.call hands out a promise that
\* settles to v
CallValue(fr, v) ==
    IF fr.construct
    THEN Await(NewExpressionResult(ConstructorResult(PromiseValue, fr.recv), fr.recv), v)
    ELSE Await(PromiseValue, v)

\* a loop's test of a carrier's label against its own:
\* if (e.label && e.label !== label) throw e
LoopTakes(sig, fr) == ~(sig.label # "" /\ sig.label # fr.label)

\* a switch's test of what a case body threw:
\* if (e instanceof BreakValue && !e.label) return result
SwitchTakes(sig) == sig.type = "break" /\ sig.label = ""

\* does the catch clause of a TryStatement receive this signal
HandlerCatches(sig) == TRUE

\* new Scope(scope) for the catch clause, the binding of its parameter, and
\* the handler body's own BlockStatement up to its first statement
EnterHandler(e, fr, sig) ==
    With(NewScope(e.h, fr.env, <<>>), LAMBDA h1 :
    With(NewScope(define(h1, Len(h1.scopes), "e", Thrown(sig)), Len(h1.scopes), <<>>),
         LAMBDA h3 :
        [e EXCEPT !.h = h3,
                  !.stack = @ \o << [Frame("catch", Len(h1.scopes), 0, 0) EXCEPT
                                        !.finalizer = fr.finalizer,
                                        !.pending = Sig("outer", "", Num(fr.env))],
                                    Frame("block", Len(h3.scopes), Len(h3.scopes), 0) >>,
                  !.acc = Undefined]))

\* the finally clause of a TryStatement starts: the finaliser's BlockStatement
\* up to its first statement, with the outcome so far left pending
EnterFinalizer(e, outer, sig) ==
    With(NewScope(e.h, outer, <<>>), LAMBDA h1 :
        [e EXCEPT !.h = h1,
                  !.stack = @ \o << [Frame("finally", outer, 0, 0) EXCEPT !.pending = sig],
                                    Frame("block", Len(h1.scopes), Len(h1.scopes), 0) >>])

\* finally { if (node.finalizer) await evaluate(node.finalizer, scope) }: the
\* finaliser runs whenever control leaves the try block or the handler,
\* whatever the outcome sig.
RunsFinalizer_OnlyOnNormal(fr, sig) ==
    fr.kind \in {"try", "catch"} /\ fr.finalizer /\ sig.type = "normal"

RunsFinalizer(fr, sig) == fr.kind \in {"try", "catch"} /\ fr.finalizer

NormalSig == Sig("normal", "", Undefined)

\* the scope a TryStatement is evaluated in, from its try or catch frame
OuterOf(fr) == IF fr.kind = "catch" THEN fr.pending.value[2] ELSE fr.env

RECURSIVE Propagate(_, _)
RECURSIVE Complete(_)

\* the construct on top of the stack has ended by signal sig
Propagate(e0, sig) ==
    With(e0, LAMBDA e :
    With(IF e.stack[Len(e.stack)].own # 0
         THEN [Pop(e) EXCEPT !.h = release(e.h, e.stack[Len(e.stack)].own)]
         ELSE Pop(e), LAMBDA left :
    LET fr == e.stack[Len(e.stack)]
    IN  CASE fr.kind = "program" ->
                \* evaluateAST: the error is rethrown, the finally clause runs
                [left EXCEPT !.status = "failed", !.acc = Undefined]
          [] fr.kind = "loop" /\ sig.type = "continue" /\ LoopTakes(sig, fr) ->
                \* the loop goes on, its scope stays
                [e EXCEPT !.acc = Undefined]
          [] fr.kind = "loop" /\ sig.type = "break" /\ LoopTakes(sig, fr) ->
                Complete([left EXCEPT !.acc = Undefined])
          [] fr.kind = "call" /\ sig.type = "return" ->
                Complete([left EXCEPT !.acc = CallValue(fr, sig.value)])
          [] fr.kind = "switch" /\ SwitchTakes(sig) ->
                \* return result
                Complete([left EXCEPT !.acc = fr.pending.value])
          [] fr.kind = "try" /\ fr.handler /\ HandlerCatches(sig) ->
                EnterHandler(left, fr, sig)
          [] RunsFinalizer(fr, sig) ->
                EnterFinalizer(left, OuterOf(fr), sig)
          [] OTHER ->
                \* the finally clause, if any, has run: a scope released, a label
                \* popped; a signal raised by a finaliser replaces the pending one
                Propagate(IF fr.kind = "labeled"
                          THEN [left EXCEPT !.labels = SubSeq(@, 1, Len(@) - 1)]
                          ELSE left, sig)))

\* the statement the construct on top of the stack was waiting for has
\* ended normally, with value e.acc
Complete(e0) ==
    With(e0, LAMBDA e :
    LET fr == e.stack[Len(e.stack)]
    IN  CASE fr.kind \in {"program", "block", "loop"} -> e
          [] fr.kind = "switch" ->
                \* result = await evaluate(statement, switchScope)
                [e EXCEPT !.stack[Len(e.stack)].pending = Sig("result", "", e.acc)]
          [] RunsFinalizer(fr, NormalSig) ->
                EnterFinalizer(Pop(e), OuterOf(fr), Sig("normal", "", e.acc))
          [] fr.kind = "finally" /\ fr.pending.type # "normal" ->
                Propagate(Pop(e), fr.pending)
          [] OTHER ->
                Complete(CASE fr.kind = "call" ->
                                  [Pop(e) EXCEPT !.h = release(e.h, fr.own),
                                                 !.acc = CallValue(fr, e.acc)]
                           [] fr.kind = "labeled" ->
                                  [Pop(e) EXCEPT !.labels = SubSeq(@, 1, Len(@) - 1)]
                           [] fr.kind = "finally" ->
                                  [Pop(e) EXCEPT !.acc = fr.pending.value]
                           [] OTHER -> Pop(e)))

\* the step to evaluator state e, made by the handler op
Apply(e0, op) ==
    \E e \in {e0} :
    /\ Len(e.h.scopes) <= limits.scopes
    /\ Len(e.h.funcs) <= limits.funcs
    /\ Len(e.stack) <= limits.stack
    /\ Len(e.classes) <= limits.classes
    /\ Len(e.objects) <= limits.objects
    /\ SetHeap(e.h)
    /\ stack' = e.stack
    /\ labelStack' = e.labels
    /\ status' = e.status
    /\ acc' = e.acc
    /\ currentClassContext' = e.ctx
    /\ classes' = e.classes
    /\ objects' = e.objects
    /\ lastOp' = op
    /\ steps' = steps + 1
    /\ UNCHANGED <<globalObj, limits, inflight, session, suspended>>

Throw(e, op) == Apply(Propagate(e, Sig("throw", "", ErrorObject)), op)

InitCommon ==
    /\ scopes = <<>>
    /\ funcs = <<>>
    /\ activeScopes = {}
    /\ activeFunctions = {}
    /\ stack = <<>>
    /\ status = "idle"
    /\ acc = Undefined
    /\ labelStack = <<>>
    /\ currentClassContext = NullContext
    /\ classes = <<>>
    /\ objects = <<>>
    /\ lastOp = Op("none", "")
    /\ steps = 0
    /\ inflight = <<>>
    /\ suspended = <<>>

\* no program is being run twice
NoOutcome == [status |-> "none", acc |-> Undefined, globals |-> <<>>]
NoSession == [prog |-> <<>>, run |-> 0, base |-> 0, first |-> NoOutcome]

Init ==
    /\ InitCommon
    /\ session = NoSession
    /\ globalObj \in GlobalTables
    /\ limits = [scopes |-> MaxScopes, funcs |-> MaxFuncs, stack |-> MaxStack,
                 steps |-> MaxSteps, classes |-> 0, objects |-> 0]

\* if (!globalObj.console) globalObj.console = console; ... Promise
SeedGlobals(g) ==
    LET g1 == IF MapHas(g, "console") THEN g ELSE MapSet(g, "console", HostConsole)
        g2 == IF MapHas(g1, "Object") THEN g1 ELSE MapSet(g1, "Object", HostObject)
        g3 == IF MapHas(g2, "Array") THEN g2 ELSE MapSet(g2, "Array", HostArray)
    IN  IF MapHas(g3, "Promise") THEN g3 ELSE MapSet(g3, "Promise", HostPromise)

\* evaluateAST up to its first statement
EvaluateASTBegin ==
    /\ status = "idle"
    /\ \E h \in {NewScope(Heap, 0, SeedGlobals(globalObj))} :
          /\ globalObj' = SeedGlobals(globalObj)
          /\ SetHeap(h)
          /\ stack' = << Frame("program", Len(h.scopes), Len(h.scopes), 0) >>
    /\ status' = "running"
    /\ lastOp' = Op("begin", "")
    /\ steps' = steps + 1
    /\ UNCHANGED <<acc, labelStack, currentClassContext, classes, objects, limits,
                   inflight, session, suspended>>

\* the innermost activation on the stack, 0 when there is none
InnermostCall ==
    IF \E i \in 1..Len(stack) : stack[i].kind = "call"
    THEN CHOOSE i \in 1..Len(stack) :
            /\ stack[i].kind = "call"
            /\ \A j \in (i + 1)..Len(stack) : stack[j].kind # "call"
    ELSE 0

\* the frames of the function being run (of the program, outside any call)
FunctionFrames == (InnermostCall + 1)..Len(stack)

\* the currentClassContext parameter of the evaluateNode invocation that runs
\* the next statement: evaluateAST passes its variable's value with each
\* statement of the program, a function body gets what the evaluator closure
\* of its RuntimeFunction carries
FrameContext ==
    IF InnermostCall = 0
    THEN currentClassContext
    ELSE funcs[stack[InnermostCall].fn].evaluator

\* the evaluator is at a place where a statement may start
Running ==
    /\ status = "running"
    /\ steps < limits.steps
    /\ inflight = <<>>
    /\ stack[Len(stack)].kind \in {"program", "block"}

\* case 'VariableDeclaration' with an Identifier target
VariableDeclaration ==
    /\ Running
    /\ \E name \in UserNames, v \in ExprValues :
          Apply([Ev EXCEPT !.h = define(Heap, CurScope, name, v), !.acc = Undefined],
                Op("define", name))

\* case 'FunctionExpression'
FunctionExpression ==
    /\ Running
    /\ \E ps \in ParamLists :
          \E h \in {NewFunction(Heap, ps, CurScope, FrameContext)} :
             Apply([Ev EXCEPT !.h = h, !.acc = Wrapper(Len(h.funcs))],
                   Op("function", ""))

\* case 'FunctionDeclaration'
FunctionDeclaration ==
    /\ Running
    /\ \E ps \in ParamLists :
          \E h \in {NewFunction(Heap, ps, CurScope, FrameContext)} :
             Apply([Ev EXCEPT !.h = define(h, CurScope, "f", Wrapper(Len(h.funcs))),
                              !.acc = Undefined],
                   Op("define", "f"))

\* case 'AssignmentExpression', operator '=', Identifier target
AssignmentExpression ==
    /\ Running
    /\ \E name \in UserNames, v \in ExprValues :
          \E r \in {assign(Heap, CurScope, name, v)} :
             IF r.ok
             THEN Apply([Ev EXCEPT !.h = r.h, !.acc = v], Op("assign", name))
             ELSE Throw([Ev EXCEPT !.h = r.h], Op("assign-miss", name))

IdentNames == UserNames \cup {"p", "Promise"}

\* does evaluating the Identifier throw
IdentifierFaults(h, s, name) == lookup(h, s, name) = Undefined

\* case 'Identifier'
Identifier ==
    /\ Running
    /\ \E name \in IdentNames :
          IF IdentifierFaults(Heap, CurScope, name)
          THEN Throw(Ev, Op("identifier-fault", name))
          ELSE Apply([Ev EXCEPT !.acc = lookup(Heap, CurScope, name)],
                     Op("identifier", name))

\* case 'BlockStatement', up to its first statement: as a statement, as the
\* body of the next iteration of a loop, or as a statement of a switch case
BlockEnter ==
    /\ status = "running"
    /\ steps < limits.steps
    /\ stack[Len(stack)].kind \in {"program", "block", "loop", "switch"}
    /\ \E h \in {NewScope(Heap, CurScope, <<>>)} :
          Apply([Ev EXCEPT !.h = h,
                           !.stack = Append(@, Frame("block", Len(h.scopes),
                                                     Len(h.scopes), 0)),
                           !.acc = Undefined],
                Op("block-enter", ""))

ActivationParent_CallSite(h, f, caller) == caller

\* the parent of the activation that a call of f from scope caller creates
ActivationParent(h, f, caller) == h.funcs[f].scope

\* RuntimeFunction.call up to the evaluation of the body, then the body's own
\* BlockStatement up to its first statement
EnterCall(e, f, arg) ==
    With(NewScope(e.h, ActivationParent(e.h, f, e.stack[Len(e.stack)].env), <<>>),
         LAMBDA h1 :
    With(NewScope(IF h1.funcs[f].params = <<>>
                  THEN h1
                  ELSE define(h1, Len(h1.scopes), h1.funcs[f].params[1], arg),
                  Len(h1.scopes), <<>>), LAMBDA h3 :
        [e EXCEPT !.h = h3,
                  !.stack = @ \o << Frame("call", Len(h1.scopes), Len(h1.scopes), f),
                                    Frame("block", Len(h3.scopes), Len(h3.scopes), 0) >>,
                  !.acc = Undefined]))

\* RuntimeFunction.call of a destroyed function with an activation built
\* before the test of this.destroyed
DestroyedFault_AfterActivation(e, f) == EnterCall(e, f, Undefined)

\* RuntimeFunction.call of a destroyed function, up to its throw: the test of
\* this.destroyed is the first statement of call
DestroyedFault(e, f) == e

\* case 'CallExpression' with an Identifier callee
CallExpression ==
    /\ Running
    /\ \E name \in UserNames, arg \in ExprValues :
          LET callee == lookup(Heap, CurScope, name)
              f == getRuntimeFunction(callee)
          IN  /\ callee # Undefined
              /\ IF f = 0
                 THEN Throw(Ev, Op("call-nonfunction", name))
                 ELSE IF funcs[f].destroyed
                 THEN Throw(DestroyedFault(Ev, f), Op("call-destroyed", name))
                 ELSE Apply(EnterCall(Ev, f, arg), Op("call", name))

\* case 'ReturnStatement': throw new ReturnValue(returnValue)
ReturnStatement ==
    /\ Running
    /\ InnermostCall # 0
    /\ \E v \in ExprValues :
          Apply(Propagate(Ev, Sig("return", "", v)), Op("return", ""))

\* case 'BlockStatement', after its last statement
BlockExit ==
    /\ Running
    /\ stack[Len(stack)].kind = "block"
    /\ Apply(Complete([Pop(Ev) EXCEPT !.h = release(Heap, stack[Len(stack)].own)]),
             [op |-> "block-exit", name |-> "",
              defs |-> MapKeys(scopes[CurScope].variables)])

\* evaluateAST after its last statement: the mirror into globalObj, then the
\* finally clause
\* a mirror that leaves alone the names the caller's table already has
RECURSIVE Mirror_KeepsCallerValues(_, _)
Mirror_KeepsCallerValues(g, entries) ==
    IF entries = <<>> THEN g
    ELSE Mirror_KeepsCallerValues(IF MapHas(g, entries[1][1])
                                  THEN g
                                  ELSE MapSet(g, entries[1][1], entries[1][2]),
                                  Tail(entries))

RECURSIVE Mirror(_, _)
Mirror(g, entries) ==
    IF entries = <<>> THEN g
    ELSE Mirror(MapSet(g, entries[1][1], entries[1][2]), Tail(entries))

EvaluateASTEnd ==
    /\ status = "running"
    /\ Len(stack) = 1
    /\ inflight = <<>>
    /\ globalObj' = Mirror(globalObj, getVariables(Heap, CurScope))
    /\ SetHeap(release(Heap, CurScope))
    /\ stack' = <<>>
    /\ status' = "done"
    /\ lastOp' = Op("end", "")
    /\ UNCHANGED <<acc, labelStack, currentClassContext, classes, objects, steps,
                   limits, inflight, session, suspended>>

Next ==
    \/ EvaluateASTBegin
    \/ VariableDeclaration
    \/ FunctionExpression
    \/ FunctionDeclaration
    \/ AssignmentExpression
    \/ Identifier
    \/ BlockEnter
    \/ CallExpression
    \/ ReturnStatement
    \/ BlockExit
    \/ EvaluateASTEnd

Spec == Init /\ [][Next]_vars

----------------------------------------------------------------------------
(* Control flow: labelled statements, loops, try statements and the        *)
(* statements that raise signals                                           *)

InitCtl ==
    /\ InitCommon
    /\ session = NoSession
    /\ globalObj = <<>>
    /\ limits = [scopes |-> MaxCtlScopes, funcs |-> MaxCtlFuncs,
                 stack |-> MaxCtlStack, steps |-> MaxCtlSteps,
                 classes |-> 0, objects |-> 0]

\* the labels of the labelled statements open in the function being run
OpenLabels == {stack[i].label : i \in {j \in FunctionFrames : stack[j].kind = "labeled"}}

\* the labels that label a loop open in the function being run
LoopLabels ==
    {stack[i].label : i \in {j \in FunctionFrames :
        /\ stack[j].kind = "labeled"
        /\ j < Len(stack)
        /\ stack[j + 1].kind = "loop"}}

InLoop == \E i \in FunctionFrames : stack[i].kind = "loop"

\* a loop or a switch statement is open in the function being run
InBreakable == \E i \in FunctionFrames : stack[i].kind \in {"loop", "switch"}

\* case 'ForStatement' up to its first iteration: the scope of the loop head,
\* and the label the loop takes for its own
ForEnter(e) ==
    With(NewScope(e.h, e.stack[Len(e.stack)].env, <<>>), LAMBDA h :
        [e EXCEPT !.h = h,
                  !.stack = Append(@, [Frame("loop", Len(h.scopes), Len(h.scopes), 0)
                                          EXCEPT !.label = getCurrentLabel(e.labels)]),
                  !.acc = Undefined])

ForStatement ==
    /\ Running
    /\ Apply(ForEnter(Ev), Op("for", ""))

\* case 'ForStatement' when its test fails
ForExit ==
    /\ status = "running"
    /\ steps < limits.steps
    /\ stack[Len(stack)].kind = "loop"
    /\ Apply(Complete([Pop(Ev) EXCEPT !.h = release(Heap, stack[Len(stack)].own),
                                      !.acc = Undefined]),
             Op("for-exit", ""))

\* case 'LabeledStatement' up to its body, a ForStatement
LabeledStatement ==
    /\ Running
    /\ \E l \in Labels \ OpenLabels :
          Apply(ForEnter([Ev EXCEPT
                    !.labels = Append(@, l),
                    !.stack = Append(@, [Frame("labeled", CurScope, 0, 0)
                                            EXCEPT !.label = l])]),
                Op("labeled", l))

\* case 'TryStatement' up to the first statement of its block
TryStatement ==
    /\ Running
    /\ \E hd \in BOOLEAN, fin \in BOOLEAN :
          /\ hd \/ fin
          /\ \E h \in {NewScope(Heap, CurScope, <<>>)} :
                Apply([Ev EXCEPT
                          !.h = h,
                          !.stack = @ \o << [Frame("try", CurScope, 0, 0) EXCEPT
                                                !.handler = hd, !.finalizer = fin],
                                            Frame("block", Len(h.scopes),
                                                  Len(h.scopes), 0) >>,
                          !.acc = Undefined],
                      Op("try", ""))

\* case 'BreakStatement', as a statement of a block or of a switch case
BreakStatement ==
    /\ status = "running"
    /\ steps < limits.steps
    /\ stack[Len(stack)].kind \in {"program", "block", "switch"}
    /\ \E l \in {""} \cup OpenLabels :
          /\ l = "" => InBreakable
          /\ IF l # "" /\ l \notin Range(labelStack)
             THEN Throw(Ev, Op("undefined-label", l))
             ELSE Apply(Propagate(Ev, Sig("break", l, Undefined)), Op("break", l))

\* case 'ContinueStatement'
ContinueStatement ==
    /\ Running
    /\ InLoop
    /\ \E l \in {""} \cup LoopLabels :
          IF l # "" /\ l \notin Range(labelStack)
          THEN Throw(Ev, Op("undefined-label", l))
          ELSE Apply(Propagate(Ev, Sig("continue", l, Undefined)), Op("continue", l))

\* case 'ThrowStatement'
ThrowStatement ==
    /\ Running
    /\ Throw(Ev, Op("throw", ""))

NextCtl ==
    \/ EvaluateASTBegin
    \/ FunctionDeclaration
    \/ CallExpression
    \/ BlockEnter
    \/ BlockExit
    \/ ReturnStatement
    \/ ForStatement
    \/ ForExit
    \/ LabeledStatement
    \/ TryStatement
    \/ BreakStatement
    \/ ContinueStatement
    \/ ThrowStatement
    \/ EvaluateASTEnd

SpecCtl == InitCtl /\ [][NextCtl]_vars

-----------------------------------------------------------------------------
(* Switch statements and for...of loops, nested with blocks, for loops and  *)
(* calls: the statements of a case are block statements, loops, calls,      *)
(* break and return                                                         *)

\* runs over switch statements
MaxSwScopes == 6
MaxSwFuncs == 1
MaxSwStack == 6
MaxSwSteps == 7
MaxCases == 3
MaxOpenSwitches == 1

\* a SwitchCase without a test
DefaultCase == <<"default", 0>>

\* the values of the tests of the cases, and of the discriminant
CaseTests == {Num(1), Num(2)}
Discriminants == {Num(1), Num(2), Undefined}

\* node.cases: any tests in any order, at most one default
CaseLists ==
    {cs \in UNION {[1..n -> CaseTests \cup {DefaultCase}] : n \in 1..MaxCases} :
        Cardinality({i \in DOMAIN cs : cs[i] = DefaultCase}) <= 1}

InitSw ==
    /\ InitCommon
    /\ session = NoSession
    /\ globalObj = <<>>
    /\ limits = [scopes |-> MaxSwScopes, funcs |-> MaxSwFuncs,
                 stack |-> MaxSwStack, steps |-> MaxSwSteps,
                 classes |-> 0, objects |-> 0]

\* the loop over node.cases from clause i on with matched and fallthrough
\* still false: the clause whose body runs first, 0 when the loop ends with
\* no body run
RECURSIVE FirstBody(_, _, _)
FirstBody(cs, d, i) ==
    IF i > Len(cs) THEN 0
    ELSE IF cs[i] = DefaultCase THEN i
    ELSE IF d = cs[i] THEN i
    ELSE FirstBody(cs, d, i + 1)

\* case 'SwitchStatement' up to the first statement of the first body that
\* runs, or to its end when none does
SwitchStatement ==
    /\ Running
    /\ Cardinality({i \in 1..Len(stack) : stack[i].kind = "switch"}) < MaxOpenSwitches
    /\ \E d \in Discriminants, cs \in CaseLists :
          \E h \in {NewScope(Heap, CurScope, <<>>)} :
             IF FirstBody(cs, d, 1) = 0
             THEN Apply([Ev EXCEPT !.h = release(h, Len(h.scopes)),
                                   !.acc = Undefined],
                        Op("switch-none", ""))
             ELSE Apply([Ev EXCEPT
                            !.h = h,
                            !.stack = Append(@, [Frame("switch", Len(h.scopes),
                                                       Len(h.scopes), 0) EXCEPT
                                                    !.cases = cs,
                                                    !.disc = d,
                                                    !.idx = FirstBody(cs, d, 1)]),
                            !.acc = Undefined],
                        Op("switch", ""))

\* the last statement of a case body has ended: fallthrough into the next
\* body, or the end of the switch after the last
SwitchCaseEnd ==
    /\ status = "running"
    /\ steps < limits.steps
    /\ stack[Len(stack)].kind = "switch"
    /\ IF stack[Len(stack)].idx < Len(stack[Len(stack)].cases)
       THEN Apply([Ev EXCEPT !.stack[Len(stack)].idx = @ + 1], Op("case-end", ""))
       ELSE Apply(Complete([Pop(Ev) EXCEPT
                               !.h = release(Heap, stack[Len(stack)].own),
                               !.acc = stack[Len(stack)].pending.value]),
                  Op("switch-end", ""))

\* a loop frame of a for...of statement
OverIterable == 3

\* case 'ForOfStatement' up to its first iteration: forOfScope, the iterable,
\* the label
ForOfStatement ==
    /\ Running
    /\ \E e \in {ForEnter(Ev)} :
          Apply([e EXCEPT !.stack[Len(e.stack)].idx = OverIterable], Op("for-of", ""))

\* case 'ForOfStatement' with a VariableDeclaration on its left: the next
\* value of the iterable, iterationScope with the declared name bound to it,
\* and the body, a BlockStatement, up to its first statement
ForOfIteration ==
    /\ status = "running"
    /\ steps < limits.steps
    /\ stack[Len(stack)].kind = "loop"
    /\ stack[Len(stack)].idx = OverIterable
    /\ \E value \in CaseTests :
          \E h1 \in {NewScope(Heap, CurScope, <<>>)} :
             \E h3 \in {NewScope(define(h1, Len(h1.scopes), "x", value),
                                 Len(h1.scopes), <<>>)} :
                Apply([Ev EXCEPT
                          !.h = h3,
                          !.stack = @ \o << Frame("iteration", Len(h1.scopes), 0, 0),
                                            Frame("block", Len(h3.scopes),
                                                  Len(h3.scopes), 0) >>,
                          !.acc = Undefined],
                      Op("for-of-iteration", "x"))

NextSw ==
    \/ EvaluateASTBegin
    \/ FunctionDeclaration
    \/ CallExpression
    \/ BlockEnter
    \/ BlockExit
    \/ ReturnStatement
    \/ ForStatement
    \/ ForExit
    \/ ForOfStatement
    \/ ForOfIteration
    \/ SwitchStatement
    \/ SwitchCaseEnd
    \/ BreakStatement
    \/ EvaluateASTEnd

SpecSw == InitSw /\ [][NextSw]_vars

-----------------------------------------------------------------------------
(* Closures made in a for loop: for (let i = 0; i < n; i++) { ... } at top  *)
(* level, with function expressions in its body that are kept in an array   *)
(* and called after the loop                                                *)

\* runs over for loops with a loop variable
MaxIter == 2
MaxLoopScopes == 8
MaxLoopFuncs == 2
MaxLoopStack == 3
MaxLoopSteps == 12

InitLoop ==
    /\ InitCommon
    /\ session = NoSession
    /\ globalObj = <<>>
    /\ limits = [scopes |-> MaxLoopScopes, funcs |-> MaxLoopFuncs,
                 stack |-> MaxLoopStack, steps |-> MaxLoopSteps,
                 classes |-> 0, objects |-> 0]

\* where a for loop with an update expression is: its test is next (1), or
\* its body has been started and its update is next (2)
AtTest == 1
AtUpdate == 2

\* case 'ForStatement' with init let i = 0, up to its first test
ForLet ==
    /\ Running
    /\ Len(stack) = 1
    /\ \E e \in {ForEnter(Ev)} :
          Apply([e EXCEPT !.h = define(e.h, e.stack[Len(e.stack)].env, "i", Num(0)),
                          !.stack[Len(e.stack)].idx = AtTest],
                Op("for-let", "i"))

\* case 'ForStatement': the test i < n holds, and the body, a BlockStatement,
\* runs up to its first statement
ForBody ==
    /\ status = "running"
    /\ steps < limits.steps
    /\ stack[Len(stack)].kind = "loop"
    /\ stack[Len(stack)].idx = AtTest
    /\ lookup(Heap, CurScope, "i")[2] < MaxIter
    /\ \E h \in {NewScope(Heap, CurScope, <<>>)} :
          Apply([Ev EXCEPT !.h = h,
                           !.stack = Append([@ EXCEPT ![Len(stack)].idx = AtUpdate],
                                            Frame("block", Len(h.scopes),
                                                  Len(h.scopes), 0)),
                           !.acc = Undefined],
                Op("for-body", ""))

\* case 'ForStatement': the update i++, case 'UpdateExpression' on an
\* Identifier
ForUpdate ==
    /\ status = "running"
    /\ steps < limits.steps
    /\ stack[Len(stack)].kind = "loop"
    /\ stack[Len(stack)].idx = AtUpdate
    /\ \E value \in {lookup(Heap, CurScope, "i")} :
          \E r \in {assign(Heap, CurScope, "i", Num(value[2] + 1))} :
             Apply([Ev EXCEPT !.h = r.h,
                              !.stack[Len(stack)].idx = AtTest,
                              !.acc = value],
                   Op("update", "i"))

\* case 'ForStatement': the test i < n fails
ForTestFails ==
    /\ stack # <<>>
    /\ stack[Len(stack)].idx = AtTest
    /\ ForExit

\* case 'CallExpression' with a MemberExpression callee, functions[k](): the
\* k-th function made so far, called at top level
CallElement ==
    /\ Running
    /\ Len(stack) = 1
    /\ \E f \in 1..Len(funcs) :
          IF funcs[f].destroyed
          THEN Throw(DestroyedFault(Ev, f), Op("call-destroyed", ""))
          ELSE Apply(EnterCall(Ev, f, Undefined), Op("call-element", ""))

\* case 'Identifier' for the loop variable
LoopVariableRead ==
    /\ Running
    /\ IF IdentifierFaults(Heap, CurScope, "i")
       THEN Throw(Ev, Op("identifier-fault", "i"))
       ELSE Apply([Ev EXCEPT !.acc = lookup(Heap, CurScope, "i")],
                  Op("identifier", "i"))

NextLoop ==
    \/ EvaluateASTBegin
    \/ ForLet
    \/ ForBody
    \/ FunctionExpression
    \/ BlockExit
    \/ ForUpdate
    \/ ForTestFails
    \/ CallElement
    \/ LoopVariableRead
    \/ ReturnStatement
    \/ EvaluateASTEnd

SpecLoop == InitLoop /\ [][NextLoop]_vars

-----------------------------------------------------------------------------
(* Binary expressions: evaluateBinaryExpression starts the evaluation of    *)
(* both operands, in the same scope, and awaits them with Promise.all.  An  *)
(* operand's evaluation runs until its first await, and goes on after it    *)
(* when the evaluator next yields                                           *)

\* runs over binary expressions
MaxBinScopes == 3
MaxBinFuncs == 1
MaxBinStack == 3
MaxBinSteps == 8

InitBin ==
    /\ InitCommon
    /\ session = NoSession
    /\ globalObj = <<>>
    /\ limits = [scopes |-> MaxBinScopes, funcs |-> MaxBinFuncs,
                 stack |-> MaxBinStack, steps |-> MaxBinSteps,
                 classes |-> 0, objects |-> 0]

\* the operands: the literal 2, x, x++ and x = 2
Operands ==
    {[type |-> t, n |-> 2] :
        t \in {"Literal", "Identifier", "UpdateExpression", "AssignmentExpression"}}

Task(node, state, value) == [node |-> node, state |-> state, value |-> value]

\* evaluateNode(node, scope) from its call to its first await, or to its end
\* if it has none: a Literal and an Identifier return at once, an
\* UpdateExpression on an Identifier reads and assigns and returns, an
\* AssignmentExpression awaits the value of its right-hand side
StartOperand(h, s, node) ==
    CASE node.type = "Literal" ->
            [h |-> h, task |-> Task(node, "done", Num(node.n))]
      [] node.type = "Identifier" ->
            [h |-> h, task |-> Task(node, "done", lookup(h, s, "x"))]
      [] node.type = "UpdateExpression" ->
            [h |-> assign(h, s, "x", Num(lookup(h, s, "x")[2] + 1)).h,
             task |-> Task(node, "done", lookup(h, s, "x"))]
      [] node.type = "AssignmentExpression" ->
            [h |-> h, task |-> Task(node, "suspended", Num(node.n))]

\* the AssignmentExpression after its await: scope.assign, return assignValue
ResumeOperand(h, s, task) ==
    [h |-> assign(h, s, "x", task.value).h,
     task |-> Task(task.node, "done", task.value)]

\* the step of a binary expression to heap h and operand evaluations tasks
ApplyOperands(h, tasks, value, op) ==
    /\ SetHeap(h)
    /\ inflight' = tasks
    /\ acc' = value
    /\ lastOp' = op
    /\ steps' = steps + 1
    /\ UNCHANGED <<globalObj, stack, status, labelStack, currentClassContext,
                   classes, objects, limits, session, suspended>>

\* evaluateBinaryExpression up to await Promise.all: evaluateNode(node.left,
\* scope), then evaluateNode(node.right, scope), each as far as it runs
BinaryExpression ==
    /\ Running
    /\ lookup(Heap, CurScope, "x")[1] = "number"
    /\ \E left \in Operands, right \in Operands :
          \E l \in {StartOperand(Heap, CurScope, left)} :
             \E r \in {StartOperand(l.h, CurScope, right)} :
                ApplyOperands(r.h, << l.task, r.task >>, Undefined, Op("binary", "x"))

\* the operand evaluation suspended first goes on to its end
OperandResumes ==
    /\ status = "running"
    /\ \E i \in DOMAIN inflight :
          /\ inflight[i].state = "suspended"
          /\ \A j \in 1..(i - 1) : inflight[j].state = "done"
          /\ \E r \in {ResumeOperand(Heap, CurScope, inflight[i])} :
                ApplyOperands(r.h, [inflight EXCEPT ![i] = r.task], acc,
                              Op("operand-resumes", "x"))

\* Promise.all has both values: leftValue + rightValue
BinaryJoin ==
    /\ status = "running"
    /\ inflight # <<>>
    /\ \A i \in DOMAIN inflight : inflight[i].state = "done"
    /\ ApplyOperands(Heap, <<>>, Num(inflight[1].value[2] + inflight[2].value[2]),
                     Op("binary-join", ""))

NextBin ==
    \/ EvaluateASTBegin
    \/ FunctionDeclaration
    \/ CallExpression
    \/ VariableDeclaration
    \/ BinaryExpression
    \/ OperandResumes
    \/ BinaryJoin
    \/ ReturnStatement
    \/ BlockExit
    \/ EvaluateASTEnd

SpecBin == InitBin /\ [][NextBin]_vars

-----------------------------------------------------------------------------
(* A program run twice: evaluate(globalObj, script) and then again, with    *)
(* the same globalObj and the same script.  The programs are straight-line, *)
(* of declarations, assignments and reads at top level                      *)

\* runs over programs run twice
MaxProg == 3
MaxTwiceScopes == 2
MaxTwiceFuncs == 6
MaxTwiceStack == 1
MaxTwiceSteps == 8

\* the statements: what they are, the name they are about, and where their
\* value comes from
ValueCodes == {"literal", "undefined", "last"}
Statements ==
    {[type |-> t, name |-> n, value |-> v] :
        t \in {"VariableDeclaration", "AssignmentExpression"},
        n \in UserNames, v \in ValueCodes}
    \cup {[type |-> "Identifier", name |-> n, value |-> "undefined"] : n \in UserNames}
    \cup {[type |-> "FunctionDeclaration", name |-> "f", value |-> "undefined"]}

Programs == UNION {[1..n -> Statements] : n \in 1..MaxProg}

\* the caller's tables
TwiceTables == { <<>>, << <<"x", Num(1)>> >> }

InitTwice ==
    /\ InitCommon
    /\ session \in {[prog |-> p, run |-> 1, base |-> 1, first |-> NoOutcome] :
                       p \in Programs}
    /\ globalObj \in TwiceTables
    /\ limits = [scopes |-> MaxTwiceScopes, funcs |-> MaxTwiceFuncs,
                 stack |-> MaxTwiceStack, steps |-> MaxTwiceSteps,
                 classes |-> 0, objects |-> 0]

\* the statement the run is at
ProgramCounter == steps - session.base + 1

\* the value of a statement's initialiser or right-hand side
ValueOf(code) ==
    CASE code = "literal" -> Num(2)
      [] code = "undefined" -> Undefined
      [] code = "last" -> acc

\* the next statement of the program: case 'VariableDeclaration',
\* 'AssignmentExpression', 'Identifier' or 'FunctionDeclaration'
ProgramStatement ==
    /\ Running
    /\ ProgramCounter <= Len(session.prog)
    /\ \E st \in {session.prog[ProgramCounter]} :
          CASE st.type = "VariableDeclaration" ->
                  Apply([Ev EXCEPT
                            !.h = define(Heap, CurScope, st.name, ValueOf(st.value)),
                            !.acc = Undefined],
                        Op("define", st.name))
            [] st.type = "AssignmentExpression" ->
                  \E r \in {assign(Heap, CurScope, st.name, ValueOf(st.value))} :
                     IF r.ok
                     THEN Apply([Ev EXCEPT !.h = r.h, !.acc = ValueOf(st.value)],
                                Op("assign", st.name))
                     ELSE Throw([Ev EXCEPT !.h = r.h], Op("assign-miss", st.name))
            [] st.type = "Identifier" ->
                  IF IdentifierFaults(Heap, CurScope, st.name)
                  THEN Throw(Ev, Op("identifier-fault", st.name))
                  ELSE Apply([Ev EXCEPT !.acc = lookup(Heap, CurScope, st.name)],
                             Op("identifier", st.name))
            [] st.type = "FunctionDeclaration" ->
                  \E h \in {NewFunction(Heap, <<>>, CurScope, FrameContext)} :
                     Apply([Ev EXCEPT
                               !.h = define(h, CurScope, st.name, Wrapper(Len(h.funcs))),
                               !.acc = Undefined],
                           Op("define", st.name))

\* evaluateAST after the last statement of the program
ProgramEnd ==
    /\ session.run # 0
    /\ ProgramCounter > Len(session.prog)
    /\ EvaluateASTEnd

\* the caller, with the first run over, calls evaluate again with the same
\* table: nothing of the module's state is reset
Rerun ==
    /\ session.run = 1
    /\ status \in {"done", "failed"}
    /\ status' = "idle"
    /\ acc' = Undefined
    /\ session' = [session EXCEPT
                      !.run = 2,
                      !.base = steps + 1,
                      !.first = [status |-> status, acc |-> acc, globals |-> globalObj]]
    /\ lastOp' = Op("rerun", "")
    /\ UNCHANGED <<scopes, funcs, activeScopes, activeFunctions, globalObj, stack,
                   labelStack, currentClassContext, classes, objects, steps, limits,
                   inflight, suspended>>

NextTwice ==
    \/ EvaluateASTBegin
    \/ ProgramStatement
    \/ ProgramEnd
    \/ Rerun

SpecTwice == InitTwice /\ [][NextTwice]_vars

----------------------------------------------------------------------------
(* Destructuring: the patterns of a VariableDeclaration and of a function  *)
(* parameter, bound against arrays and objects                             *)

MaxPatScopes == 3
MaxPatFuncs == 1
MaxPatStack == 3
MaxPatSteps == 4
\* elements of a pattern
MaxElements == 2

Arr(k) == <<"array", k>>
Lit(k) == <<"object-literal", k>>
\* what value.slice(i) and { ...value } make
RestValue == <<"array", 0>>

\* the arrays and object literals of the programs: [{x: [7], f: {x: 8}}, [7]],
\* [7], {x: [7], f: {x: 8}} and {x: 8}
ArrayElements == << << Lit(1), Arr(2) >>, << Num(7) >> >>
LiteralProperties ==
    << << <<"x", Arr(2)>>, <<"f", Lit(2)>> >>, << <<"x", Num(8)>> >> >>

\* the values an initialiser or an argument yields
PatValues == {Num(1), Arr(1), Lit(1)}

IsArray(v) == v[1] = "array"

\* value !== null && typeof value === 'object'
IsObjectValue(v) == v[1] \in {"array", "object-literal"}

\* value[i] of an array (the model counts from 1), undefined past its end
ElementAt(v, i) ==
    IF IsArray(v) /\ v[2] # 0 /\ i <= Len(ArrayElements[v[2]])
    THEN ArrayElements[v[2]][i]
    ELSE Undefined

\* value[key] for a property name
PropertyAt(v, key) ==
    IF v[1] = "object-literal" THEN MapGet(LiteralProperties[v[2]], key) ELSE Undefined

\* a pattern element: an Identifier, an AssignmentPattern (name = expr), a
\* RestElement, or a nested pattern.  In an object pattern an element is the
\* Property whose key is name and whose value has the element's type.
Element(type, name, items) == [type |-> type, name |-> name, items |-> items]

Leaves ==
    {Element(t, n, <<>>) : t \in {"Identifier", "AssignmentPattern"}, n \in UserNames}
        \cup {Element("RestElement", "f", <<>>)}

Nested ==
    {Element(t, "x", <<l>>) :
        t \in {"ObjectPattern", "ArrayPattern"},
        l \in {Element("Identifier", "f", <<>>), Element("AssignmentPattern", "f", <<>>)}}

\* the names an element binds
NamesOf(el) == IF el.items = <<>> THEN {el.name} ELSE {el.items[1].name}

\* the patterns the parser accepts: a rest element comes last, no name twice
Patterns ==
    {Element(t, "", items) :
        t \in {"ObjectPattern", "ArrayPattern"},
        items \in {s \in UNION {[1..n -> Leaves \cup Nested] : n \in 1..MaxElements} :
                      /\ \A i \in 1..(Len(s) - 1) : s[i].type # "RestElement"
                      /\ \A i, j \in 1..Len(s) : i # j => NamesOf(s[i]) \cap NamesOf(s[j]) = {}}}

\* a binder at work: the heap, whether it has thrown, and the names it has
\* passed to scope.define
Binder(h) == [h |-> h, ok |-> TRUE, defs |-> {}]

BinderDefine(b, s, name, v) ==
    [b EXCEPT !.h = define(b.h, s, name, v), !.defs = @ \cup {name}]

BinderThrow(b) == [b EXCEPT !.ok = FALSE]

\* for (const nestedProp of ....properties): only Identifier values
RECURSIVE DeclareNestedProperties(_, _, _, _, _)
DeclareNestedProperties(b0, s, items, v, i) ==
    With(b0, LAMBDA b :
        IF ~b.ok \/ i > Len(items)
        THEN b
        ELSE DeclareNestedProperties(
                 IF items[i].type # "Identifier"
                 THEN BinderThrow(b)
                 ELSE BinderDefine(b, s, items[i].name, PropertyAt(v, items[i].name)),
                 s, items, v, i + 1))

\* for (let j = 0; j < ....elements.length; j++): only Identifier elements
RECURSIVE DeclareNestedElements(_, _, _, _, _)
DeclareNestedElements(b0, s, items, v, i) ==
    With(b0, LAMBDA b :
        IF ~b.ok \/ i > Len(items)
        THEN b
        ELSE DeclareNestedElements(
                 IF items[i].type # "Identifier"
                 THEN BinderThrow(b)
                 ELSE BinderDefine(b, s, items[i].name, ElementAt(v, i)),
                 s, items, v, i + 1))

\* case 'VariableDeclaration', declarator.id.type === 'ObjectPattern': the
\* loop over declarator.id.properties, from the i-th
RECURSIVE DeclareProperties(_, _, _, _, _)
DeclareProperties(b0, s, items, v, i) ==
    With(b0, LAMBDA b :
        IF ~b.ok \/ i > Len(items)
        THEN b
        ELSE LET el == items[i]
                 pv == PropertyAt(v, el.name)
             IN  DeclareProperties(
                     CASE el.type = "RestElement" ->
                              BinderDefine(b, s, el.name, RestValue)
                       [] el.type = "Identifier" ->
                              BinderDefine(b, s, el.name, pv)
                       [] el.type = "ObjectPattern" ->
                              IF ~IsObjectValue(pv)
                              THEN BinderThrow(b)
                              ELSE DeclareNestedProperties(b, s, el.items, pv, 1)
                       [] el.type = "ArrayPattern" ->
                              IF ~IsArray(pv)
                              THEN BinderThrow(b)
                              ELSE DeclareNestedElements(b, s, el.items, pv, 1)
                       [] OTHER ->
                              \* 'Unsupported property value type in object destructuring'
                              BinderThrow(b),
                     s, items, v, i + 1))

\* case 'VariableDeclaration', declarator.id.type === 'ArrayPattern': the
\* loop over declarator.id.elements, from the i-th.  An element of a type
\* none of the branches names is passed over.
RECURSIVE DeclareElements(_, _, _, _, _)
DeclareElements(b0, s, items, v, i) ==
    With(b0, LAMBDA b :
        IF ~b.ok \/ i > Len(items)
        THEN b
        ELSE LET el == items[i]
                 ev == ElementAt(v, i)
             IN  CASE el.type = "RestElement" ->
                          \* break
                          BinderDefine(b, s, el.name, RestValue)
                   [] el.type = "Identifier" ->
                          DeclareElements(BinderDefine(b, s, el.name, ev), s, items, v, i + 1)
                   [] el.type = "ObjectPattern" ->
                          DeclareElements(IF ~IsObjectValue(ev)
                                          THEN BinderThrow(b)
                                          ELSE DeclareNestedProperties(b, s, el.items, ev, 1),
                                          s, items, v, i + 1)
                   [] el.type = "ArrayPattern" ->
                          DeclareElements(IF ~IsArray(ev)
                                          THEN BinderThrow(b)
                                          ELSE DeclareNestedElements(b, s, el.items, ev, 1),
                                          s, items, v, i + 1)
                   [] OTHER ->
                          DeclareElements(b, s, items, v, i + 1))

\* case 'VariableDeclaration' with a pattern as declarator.id
DeclarePattern(b, s, pattern, v) ==
    IF pattern.type = "ObjectPattern"
    THEN IF ~IsObjectValue(v) THEN BinderThrow(b)
         ELSE DeclareProperties(b, s, pattern.items, v, 1)
    ELSE IF ~IsArray(v) THEN BinderThrow(b)
         ELSE DeclareElements(b, s, pattern.items, v, 1)

\* RuntimeFunction.processDestructuringParameter, and its two loops from the
\* i-th property or element
RECURSIVE processDestructuringParameter(_, _, _, _)
RECURSIVE ProcessProperties(_, _, _, _, _)
RECURSIVE ProcessElements(_, _, _, _, _)

processDestructuringParameter(b, pattern, v, s) ==
    CASE pattern.type = "ObjectPattern" ->
             IF ~IsObjectValue(v) THEN BinderThrow(b)
             ELSE ProcessProperties(b, pattern.items, v, s, 1)
      [] pattern.type = "ArrayPattern" ->
             IF ~IsArray(v) THEN BinderThrow(b)
             ELSE ProcessElements(b, pattern.items, v, s, 1)
      [] OTHER -> BinderThrow(b)

ProcessProperties(b0, items, v, s, i) ==
    With(b0, LAMBDA b :
        IF ~b.ok \/ i > Len(items)
        THEN b
        ELSE LET el == items[i]
             IN  ProcessProperties(
                     CASE el.type = "RestElement" ->
                              BinderDefine(b, s, el.name, RestValue)
                       [] el.type = "Identifier" ->
                              BinderDefine(b, s, el.name, PropertyAt(v, el.name))
                       [] el.type \in {"ObjectPattern", "ArrayPattern"} ->
                              processDestructuringParameter(b, el, PropertyAt(v, el.name), s)
                       [] OTHER ->
                              BinderThrow(b),
                     items, v, s, i + 1))

ProcessElements(b0, items, v, s, i) ==
    With(b0, LAMBDA b :
        IF ~b.ok \/ i > Len(items)
        THEN b
        ELSE LET el == items[i]
             IN  CASE el.type = "RestElement" ->
                          BinderDefine(b, s, el.name, RestValue)
                   [] el.type = "Identifier" ->
                          ProcessElements(BinderDefine(b, s, el.name, ElementAt(v, i)),
                                          items, v, s, i + 1)
                   [] el.type \in {"ObjectPattern", "ArrayPattern"} ->
                          ProcessElements(
                              processDestructuringParameter(b, el, ElementAt(v, i), s),
                              items, v, s, i + 1)
                   [] OTHER ->
                          \* 'Unsupported element type in array destructuring'
                          ProcessElements(BinderThrow(b), items, v, s, i + 1))

\* what a binding handler leaves in lastOp: the pattern, whether the binder
\* returned, and the names it defined
PatternOp(op, pattern, b) ==
    [op |-> op, name |-> "", defs |-> b.defs, pattern |-> pattern, ok |-> b.ok]

InitPat ==
    /\ InitCommon
    /\ session = NoSession
    /\ globalObj = <<>>
    /\ limits = [scopes |-> MaxPatScopes, funcs |-> MaxPatFuncs,
                 stack |-> MaxPatStack, steps |-> MaxPatSteps,
                 classes |-> 0, objects |-> 0]

\* case 'VariableDeclaration' with an ObjectPattern or ArrayPattern target
VariableDeclarationPattern ==
    /\ Running
    /\ \E pattern \in Patterns, v \in PatValues :
          \E b \in {DeclarePattern(Binder(Heap), CurScope, pattern, v)} :
             IF b.ok
             THEN Apply([Ev EXCEPT !.h = b.h, !.acc = Undefined],
                        PatternOp("declare-pattern", pattern, b))
             ELSE Throw([Ev EXCEPT !.h = b.h], PatternOp("declare-pattern", pattern, b))

\* case 'FunctionDeclaration' whose one parameter is a pattern
FunctionDeclarationPattern ==
    /\ Running
    /\ \E pattern \in Patterns :
          \E h \in {NewFunction(Heap, <<pattern>>, CurScope, FrameContext)} :
             Apply([Ev EXCEPT !.h = define(h, CurScope, "f", Wrapper(Len(h.funcs))),
                              !.acc = Undefined],
                   Op("define", "f"))

\* case 'CallExpression' of f, whose parameter is a pattern: RuntimeFunction.call
\* up to the evaluation of the body, then the body's own BlockStatement up to
\* its first statement; a throw of the binder runs functionScope.release()
CallPattern ==
    /\ Running
    /\ getRuntimeFunction(lookup(Heap, CurScope, "f")) # 0
    /\ \E f \in {getRuntimeFunction(lookup(Heap, CurScope, "f"))}, v \in PatValues :
          /\ ~funcs[f].destroyed
          /\ \E h1 \in {NewScope(Heap, funcs[f].scope, <<>>)} :
             \E b \in {processDestructuringParameter(Binder(h1), funcs[f].params[1], v,
                                                     Len(h1.scopes))} :
                IF b.ok
                THEN \E h3 \in {NewScope(b.h, Len(h1.scopes), <<>>)} :
                        Apply([Ev EXCEPT
                                  !.h = h3,
                                  !.stack = @ \o << Frame("call", Len(h1.scopes),
                                                          Len(h1.scopes), f),
                                                    Frame("block", Len(h3.scopes),
                                                          Len(h3.scopes), 0) >>,
                                  !.acc = Undefined],
                              PatternOp("call-pattern", funcs[f].params[1], b))
                ELSE Throw([Ev EXCEPT !.h = release(b.h, Len(h1.scopes))],
                           PatternOp("call-pattern", funcs[f].params[1], b))

NextPat ==
    \/ EvaluateASTBegin
    \/ VariableDeclarationPattern
    \/ FunctionDeclarationPattern
    \/ CallPattern
    \/ ReturnStatement
    \/ EvaluateASTEnd

SpecPat == InitPat /\ [][NextPat]_vars

----------------------------------------------------------------------------
(* Overlapping evaluate() calls.  Every evaluation of a node is awaited, so *)
(* a call of evaluate() gives way at each await, and a call the host makes  *)
(* meanwhile runs between its steps.  Each call has its own evaluateAST:    *)
(* its own root scope, its own nest of open constructs; the labelStack of   *)
(* nodes.ts is the module's, one for all calls.                             *)

MaxLblScopes == 6
MaxLblStack == 4
MaxLblSteps == 7
\* evaluate() calls in flight at once
MaxEvaluations == 2

InitLbl ==
    /\ InitCommon
    /\ session = NoSession
    /\ globalObj = <<>>
    /\ limits = [scopes |-> MaxLblScopes, funcs |-> 0, stack |-> MaxLblStack,
                 steps |-> MaxLblSteps, classes |-> 0, objects |-> 0]

\* what the evaluate() call that runs keeps while it waits
Evaluation == [stack |-> stack, status |-> status, acc |-> acc]

\* the host calls evaluate() while the call that runs waits at an await:
\* evaluateAST up to its first statement
EvaluateOverlapping ==
    /\ status = "running"
    /\ steps < limits.steps
    /\ Len(suspended) + 1 < MaxEvaluations
    /\ \E h \in {NewScope(Heap, 0, SeedGlobals(globalObj))} :
          /\ Len(h.scopes) <= limits.scopes
          /\ globalObj' = SeedGlobals(globalObj)
          /\ SetHeap(h)
          /\ stack' = << Frame("program", Len(h.scopes), Len(h.scopes), 0) >>
    /\ suspended' = Append(suspended, Evaluation)
    /\ acc' = Undefined
    /\ lastOp' = Op("begin", "")
    /\ steps' = steps + 1
    /\ UNCHANGED <<status, labelStack, currentClassContext, classes, objects, limits,
                   inflight, session>>

\* the call that runs waits at an await, or has ended, and a call that waited
\* goes on from where it was
Resume ==
    /\ status \in {"running", "done", "failed"}
    /\ \E k \in 1..Len(suspended) :
          /\ suspended[k].status = "running"
          /\ stack' = suspended[k].stack
          /\ status' = suspended[k].status
          /\ acc' = suspended[k].acc
          /\ suspended' = [suspended EXCEPT ![k] = Evaluation]
    /\ lastOp' = Op("resume", "")
    /\ UNCHANGED <<scopes, funcs, activeScopes, activeFunctions, globalObj, labelStack,
                   currentClassContext, classes, objects, steps, limits, inflight,
                   session>>

NextLbl ==
    \/ EvaluateASTBegin
    \/ EvaluateOverlapping
    \/ Resume
    \/ LabeledStatement
    \/ ForStatement
    \/ ForExit
    \/ BlockEnter
    \/ BreakStatement
    \/ EvaluateASTEnd

SpecLbl == InitLbl /\ [][NextLbl]_vars

----------------------------------------------------------------------------
(* Assignment: programs of blocks, function values and assignments, long   *)
(* enough for a function to outlive the block it was made in and then to   *)
(* be overwritten                                                          *)

MaxAsgScopes == 3
MaxAsgFuncs == 1
MaxAsgStack == 3
MaxAsgSteps == 7

InitAsg ==
    /\ InitCommon
    /\ session = NoSession
    /\ globalObj \in GlobalTables
    /\ limits = [scopes |-> MaxAsgScopes, funcs |-> MaxAsgFuncs,
                 stack |-> MaxAsgStack, steps |-> MaxAsgSteps,
                 classes |-> 0, objects |-> 0]

NextAsg ==
    \/ EvaluateASTBegin
    \/ VariableDeclaration
    \/ FunctionExpression
    \/ FunctionDeclaration
    \/ AssignmentExpression
    \/ Identifier
    \/ BlockEnter
    \/ BlockExit
    \/ EvaluateASTEnd

SpecAsg == InitAsg /\ [][NextAsg]_vars

----------------------------------------------------------------------------
(* Classes: evaluateClassDefinition, construction, method calls, this and  *)
(* super                                                                   *)

\* runs over classes
MaxClsScopes == 8
MaxClsFuncs == 4
MaxClsStack == 5
MaxClsSteps == 7
MaxClasses == 2
MaxObjects == 1

\* the i-th class a program declares is named ClassNames[i]
ClassNames == <<"A", "B", "C", "D">>

InitClass ==
    /\ InitCommon
    /\ session = NoSession
    /\ globalObj = <<>>
    /\ limits = [scopes |-> MaxClsScopes, funcs |-> MaxClsFuncs,
                 stack |-> MaxClsStack, steps |-> MaxClsSteps,
                 classes |-> MaxClasses, objects |-> MaxObjects]

\* the classes whose names scope s resolves
VisibleClasses(e, s) ==
    {c \in 1..Len(e.classes) : lookup(e.h, s, ClassNames[c]) = Class(c)}

\* the value of a superClass: the superclass's constructor, or null
SuperValue(sup) == IF sup = 0 THEN Null ELSE Class(sup)

\* evaluateClassDefinition and the definition of the class's name: a class
\* with or without a constructor, with or without a method m
ClassDeclaration ==
    /\ Running
    /\ \E sup \in {0} \cup VisibleClasses(Ev, CurScope),
          hasConstructor \in BOOLEAN, hasMethod \in BOOLEAN :
          \E h1 \in {IF hasConstructor
                     THEN NewFunction(Heap, <<>>, CurScope, FrameContext)
                     ELSE Heap} :
          \E h2 \in {IF hasMethod
                     THEN NewFunction(h1, <<>>, CurScope, FrameContext)
                     ELSE h1} :
          LET c == Len(classes) + 1
              class == [superClass |-> sup,
                        constructorMethod |-> IF hasConstructor THEN Len(h1.funcs) ELSE 0,
                        m |-> IF hasMethod THEN Len(h2.funcs) ELSE 0,
                        scope |-> CurScope]
          IN  /\ c <= Len(ClassNames)
              /\ Apply([Ev EXCEPT !.h = define(h2, CurScope, ClassNames[c], Class(c)),
                                  !.classes = Append(@, class),
                                  !.acc = Undefined],
                       Op("class", ClassNames[c]))

\* the class on the prototype chain from class c that defines m, 0 if none
RECURSIVE ResolveMethod(_, _)
ResolveMethod(cs, c) ==
    IF c = 0 THEN 0
    ELSE IF cs[c].m # 0 THEN c
    ELSE ResolveMethod(cs, cs[c].superClass)

\* the finally clause of constructorMethod, of methodFunction and of the
\* default constructor of a derived class: setCurrentClassContext(null)
ResetContext(context) == NullContext

\* constructorMethod and methodFunction, called with this = recv for the
\* RuntimeFunction f of class c: the method scope, the class context, then
\* runtimeFunc.call up to the first statement of the body, where the call
\* first suspends and the finally clause resets the context and releases the
\* method scope; the body runs on from there
InvokeMember(e, c, f, recv, construct) ==
    With(NewScope(e.h, e.classes[c].scope, <<>>), LAMBDA h1 :
    With(define(define(h1, Len(h1.scopes), "this", recv),
                Len(h1.scopes), "super", SuperValue(e.classes[c].superClass)),
         LAMBDA h3 :
        IF h3.funcs[f].destroyed
        THEN Propagate([e EXCEPT !.h = release(h3, Len(h1.scopes)),
                                 !.ctx = ResetContext(ClassContext(recv,
                                                        e.classes[c].superClass))],
                       Sig("throw", "", ErrorObject))
        ELSE With(NewScope(h3, ActivationParent(h3, f, e.stack[Len(e.stack)].env), <<>>),
                  LAMBDA h4 :
             With(NewScope(h4, Len(h4.scopes), <<>>), LAMBDA h5 :
                [e EXCEPT
                    !.h = release(h5, Len(h1.scopes)),
                    !.ctx = ResetContext(ClassContext(recv, e.classes[c].superClass)),
                    !.stack = @ \o << [Frame("call", Len(h4.scopes), Len(h4.scopes), f)
                                          EXCEPT !.recv = recv, !.cls = c,
                                                 !.construct = construct],
                                      Frame("block", Len(h5.scopes), Len(h5.scopes), 0) >>,
                    !.acc = Undefined]))))

\* class c and its ancestors have no constructor of their own
RECURSIVE DefaultConstructors(_, _)
DefaultConstructors(cs, c) ==
    IF c = 0 THEN TRUE
    ELSE cs[c].constructorMethod = 0 /\ DefaultConstructors(cs, cs[c].superClass)

\* case 'NewExpression' with an Identifier callee and the class's constructor
\* as createClass built it; a class without a constructor of its own is
\* constructed only where its ancestors have none either
NewExpression ==
    /\ Running
    /\ \E c \in VisibleClasses(Ev, CurScope) :
          LET instance == Obj(Len(objects) + 1)
              e1 == [Ev EXCEPT !.objects = Append(@, [class |-> c])]
          IN  IF classes[c].constructorMethod # 0
              THEN Apply(InvokeMember(e1, c, classes[c].constructorMethod, instance, TRUE),
                         Op("new", ClassNames[c]))
              ELSE /\ DefaultConstructors(classes, c)
                   /\ Apply([e1 EXCEPT !.ctx = IF classes[c].superClass # 0
                                              THEN ResetContext(ClassContext(instance,
                                                       classes[c].superClass))
                                              ELSE @,
                                       !.acc = NewExpressionResult(Undefined, instance)],
                            Op("new", ClassNames[c]))

\* case 'CallExpression' with callee x.m
MethodCall ==
    /\ Running
    /\ LET obj == lookup(Heap, CurScope, "x")
       IN  /\ obj[1] = "object"
           /\ LET c == ResolveMethod(classes, objects[obj[2]].class)
              IN  IF c = 0
                  THEN Throw(Ev, Op("call-nonfunction", "m"))
                  ELSE Apply(InvokeMember(Ev, c, classes[c].m, obj, FALSE),
                             Op("method-call", ClassNames[c]))

\* the frame of the class member being run
InMember == InnermostCall # 0 /\ stack[InnermostCall].cls # 0

\* case 'ThisExpression'
ThisValue(h, s, context) ==
    IF lookup(h, s, "this") = Undefined
    THEN IF context.set THEN context.thisObj ELSE Undefined
    ELSE lookup(h, s, "this")

ThisExpression ==
    /\ Running
    /\ Apply([Ev EXCEPT !.acc = ThisValue(Heap, CurScope, FrameContext)], Op("this", ""))

\* evaluateMemberExpression with object super and property m: the class whose
\* m the reference yields, 0 for undefined, -1 for the fault
SuperMember(cs, os, context) ==
    IF ~context.set THEN 0 - 1
    ELSE IF context.superClass = 0 THEN 0 - 1
    ELSE ResolveMethod(cs, cs[os[context.thisObj[2]].class].superClass)

\* case 'CallExpression' with callee super.m, in the body of a class member
SuperCall ==
    /\ Running
    /\ InMember
    /\ LET c == SuperMember(classes, objects, FrameContext)
       IN  IF c < 0
           THEN Throw(Ev, Op("super-fault", "m"))
           ELSE IF c = 0
           THEN Throw(Ev, Op("super-nonfunction", "m"))
           ELSE Apply(InvokeMember(Ev, c, classes[c].m, FrameContext.thisObj, FALSE),
                      Op("super-call", ClassNames[c]))

NextClass ==
    \/ EvaluateASTBegin
    \/ ClassDeclaration
    \/ NewExpression
    \/ VariableDeclaration
    \/ MethodCall
    \/ ThisExpression
    \/ SuperCall
    \/ ReturnStatement
    \/ BlockExit
    \/ EvaluateASTEnd

SpecClass == InitClass /\ [][NextClass]_vars

----------------------------------------------------------------------------
(* Properties of the environment and of the evaluator's use of it *)

HeapNext == [scopes |-> scopes', funcs |-> funcs',
             activeScopes |-> activeScopes', activeFunctions |-> activeFunctions']

Finished == status \in {"done", "failed"}

\* name as scope s sees it: whether it is bound, and to what
Binding(h, s, name) == <<Bound(h, s, name), lookup(h, s, name)>>

InCall == InnermostCall # 0

\* name is bound neither by the innermost activation nor by a block of its body
FreeInBody(name) ==
    \A j \in InnermostCall..Len(stack) : ~MapHas(scopes[stack[j].env].variables, name)

CapturedEnv == funcs[stack[InnermostCall].fn].scope

CallSite == stack[InnermostCall - 1].env

\* C1: once evaluateAST has released the global scope, on a successful or a
\* failing run, the memory tracker holds no scope and no function.
C1_TrackerEmptyAfterRootRelease ==
    Finished => (activeScopes = {} /\ activeFunctions = {})

\* C2: the names the root environment binds are exactly the keys of the table
\* the caller supplied; the evaluator adds none.
C2_RootBindsExactlyCallerKeys ==
    [][lastOp'.op = "begin" =>
          MapKeys(scopes'[1].variables) = MapKeys(globalObj)]_vars

\* C5: a name that is free in a function's body resolves, at every call, in
\* the environment the function captured when it was created (a fault if it is
\* not bound there), not in the environment of the call site.
C5_FreeNamesResolveInCapturedEnv ==
    [][(/\ lastOp'.op \in {"identifier", "identifier-fault"}
        /\ InCall
        /\ FreeInBody(lastOp'.name))
          => IF lookup(Heap, CapturedEnv, lastOp'.name) = Undefined
             THEN lastOp'.op = "identifier-fault"
             ELSE /\ lastOp'.op = "identifier"
                  /\ acc' = lookup(Heap, CapturedEnv, lastOp'.name)]_vars

\* a free name of the body was evaluated during a call made from a scope that
\* binds the name differently from the captured environment
C5_Witness ==
    /\ status = "running"
    /\ lastOp.op = "identifier"
    /\ InCall
    /\ FreeInBody(lastOp.name)
    /\ Binding(Heap, CallSite, lastOp.name) # Binding(Heap, CapturedEnv, lastOp.name)
    /\ acc = lookup(Heap, CapturedEnv, lastOp.name)

\* C6: a definition made inside a block, and the block's exit, leave every
\* binding the enclosing environment sees as it was.
C6_BlockDefinitionsStayLocal ==
    [][(/\ lastOp'.op \in {"define", "block-exit"}
        /\ stack[Len(stack)].kind = "block"
        /\ (lastOp'.op = "block-exit" => stack[Len(stack) - 1].kind # "call"))
          => \A n \in UserNames :
                Binding(HeapNext, scopes[CurScope].parent, n)
                    = Binding(Heap, scopes[CurScope].parent, n)]_vars

\* a block that had defined x has exited, and x is absent outside it
C6_Witness ==
    /\ status = "running"
    /\ lastOp.op = "block-exit"
    /\ "x" \in lastOp.defs
    /\ ~Bound(Heap, CurScope, "x")

\* C10: evaluating an Identifier faults if and only if no environment of the
\* current chain binds the name.
C10_IdentifierFaultsIffUnbound ==
    [][lastOp'.op \in {"identifier", "identifier-fault"}
          => (lastOp'.op = "identifier-fault"
                 <=> ~Bound(Heap, CurScope, lastOp'.name))]_vars

\* a catch clause was entered by the step
HandlerEntered ==
    \E i \in 1..Len(stack') : stack'[i].kind = "catch" /\ stack'[i].env > Len(scopes)

\* C3: a Return, Break or Continue signal raised inside a try statement passes
\* it without running the handler; the handler runs only on a Throw.
C3_HandlerRunsOnlyOnThrow ==
    [][lastOp'.op \in {"return", "break", "continue"} => ~HandlerEntered]_vars

\* the frame of the labelled statement l of the function being run
LabeledFrame(l) ==
    CHOOSE i \in FunctionFrames : stack[i].kind = "labeled" /\ stack[i].label = l

\* only loops, blocks and labelled statements are open inside frame t
OnlyLoopsInside(t) ==
    \A j \in (t + 1)..Len(stack) : stack[j].kind \in {"loop", "block", "labeled"}

\* C4: break L ends the loop labelled L, and continue L starts the next
\* iteration of the loop labelled L, whatever labelled or unlabelled loops are
\* nested between the statement and that loop.
C4_LabelledJumpReachesItsLoop ==
    [][(/\ lastOp'.op \in {"break", "continue"}
        /\ lastOp'.name # ""
        /\ OnlyLoopsInside(LabeledFrame(lastOp'.name)))
          => IF lastOp'.op = "break"
             THEN stack' = SubSeq(stack, 1, LabeledFrame(lastOp'.name) - 1)
             ELSE stack' = SubSeq(stack, 1, LabeledFrame(lastOp'.name) + 1)]_vars

\* C7: inside the body of a method or constructor invoked on receiver r,
\* this evaluates to r.
C7_ThisIsTheReceiver ==
    [][(lastOp'.op = "this" /\ InMember) => acc' = stack[InnermostCall].recv]_vars

\* the class of the member being run
MemberClass == stack[InnermostCall].cls

\* C8: super.m in a method of class B resolves m on the superclass of B, and
\* the resolved method runs on the receiver of the calling method, whatever
\* the class of that receiver.
C8_SuperResolvesOnDefiningClassParent ==
    [][(/\ lastOp'.op \in {"super-call", "super-fault", "super-nonfunction"}
        /\ InMember
        /\ ~stack[InnermostCall].construct
        /\ ResolveMethod(classes, classes[MemberClass].superClass) # 0)
          => /\ lastOp'.op = "super-call"
             /\ Len(stack') = Len(stack) + 2
             /\ stack'[Len(stack) + 1].cls
                    = ResolveMethod(classes, classes[MemberClass].superClass)
             /\ stack'[Len(stack) + 1].recv = stack[InnermostCall].recv]_vars

\* the step ends the constructor call of a new expression normally
ConstructionEnds ==
    /\ InMember
    /\ stack[InnermostCall].construct
    /\ status' = "running"
    /\ Len(stack') < InnermostCall

\* C9: new C(args) yields the object the constructor explicitly returned, and
\* otherwise the fresh receiver: not the value of the body's last statement,
\* not a primitive, not a pending promise.
C9_NewYieldsReturnedObjectOrReceiver ==
    [][/\ ConstructionEnds
          => \/ acc' = stack[InnermostCall].recv
             \/ lastOp'.op = "return" /\ acc' # PromiseValue /\ IsObject(acc')
       /\ (lastOp'.op = "new" /\ Len(stack') = Len(stack) /\ status' = "running")
          => acc' = Obj(Len(objects'))]_vars

\* frame i is an open try statement, in its block or in its handler, that
\* has a finaliser
OwesFinalizer(i) == stack[i].kind \in {"try", "catch"} /\ stack[i].finalizer

\* the step leaves frame i of the stack in place
FrameStays(i) == Len(stack') >= i /\ stack'[i] = stack[i]

\* the innermost finaliser being run
InnermostFinally ==
    IF \E i \in 1..Len(stack) : stack[i].kind = "finally"
    THEN CHOOSE i \in 1..Len(stack) :
            /\ stack[i].kind = "finally"
            /\ \A j \in (i + 1)..Len(stack) : stack[j].kind # "finally"
    ELSE 0

\* a throw statement of the finaliser of frame t leaves that finaliser and
\* nothing further out is there to handle it or to run on its way
ThrowEscapesFinalizer(t) ==
    /\ t # 0
    /\ \A j \in (t + 1)..Len(stack) : stack[j].kind \in {"block", "loop", "labeled"}
    /\ \A j \in 1..(t - 1) : stack[j].kind \notin {"try", "catch", "finally"}

\* C11: the finaliser of a TryStatement runs exactly once on every outcome of
\* the try block and of the handler (normal completion, Return, Break,
\* Continue, Throw): the step that leaves the block or the handler starts the
\* finaliser, the finaliser once started is not started again, and a signal
\* raised by the finaliser replaces the pending one.
C11_FinalizerRunsOnceOnEveryOutcome ==
    [][/\ \A i \in 1..Len(stack) :
            OwesFinalizer(i)
               => \/ FrameStays(i)
                  \/ /\ Len(stack') = i + 1
                     /\ \/ stack'[i].kind = "finally"
                        \/ /\ stack[i].kind = "try"
                           /\ stack'[i].kind = "catch"
                           /\ stack'[i].finalizer
       /\ \A i \in 1..Len(stack) :
            stack[i].kind = "finally"
               => \/ FrameStays(i) /\ FrameStays(i + 1)
                  \/ Len(stack') < i
                  \/ stack'[i].kind # "finally"
       /\ (lastOp'.op = "throw" /\ ThrowEscapesFinalizer(InnermostFinally))
             => status' = "failed"]_vars

\* a finaliser is running after a Return, a Break or a Continue left the try
\* block, and another after a Throw left a handler
C11_Witness ==
    /\ status = "running"
    /\ \E i \in 1..Len(stack) :
          /\ stack[i].kind = "finally"
          /\ stack[i].pending.type \in {"return", "break", "continue"}
          /\ ThrowEscapesFinalizer(i)

\* the first clause of cs whose test strictly equals d, 0 when there is none
FirstMatch(cs, d) ==
    IF \E i \in 1..Len(cs) : cs[i] # DefaultCase /\ cs[i] = d
    THEN CHOOSE i \in 1..Len(cs) :
            /\ cs[i] # DefaultCase /\ cs[i] = d
            /\ \A j \in 1..(i - 1) : ~(cs[j] # DefaultCase /\ cs[j] = d)
    ELSE 0

\* the innermost open switch statement, with nothing but blocks inside it
SwitchOfBreak ==
    IF \E i \in 1..Len(stack) :
          /\ stack[i].kind = "switch"
          /\ \A j \in (i + 1)..Len(stack) : stack[j].kind = "block"
    THEN CHOOSE i \in 1..Len(stack) :
            /\ stack[i].kind = "switch"
            /\ \A j \in (i + 1)..Len(stack) : stack[j].kind = "block"
    ELSE 0

Overwritten(op) ==
    getRuntimeFunction(IF op.op = "define"
                       THEN MapGet(scopes[CurScope].variables, op.name)
                       ELSE lookup(Heap, CurScope, op.name))

\* how many functions the step creates that capture scope s
NewCaptures(s) ==
    Cardinality({f \in (Len(funcs) + 1)..Len(funcs') : funcs'[f].scope = s})

\* C13: when define or assign overwrites a binding whose value is a user
\* function, that function is destroyed: it is no longer alive, the memory
\* tracker no longer counts it, and its reference on the environment it
\* captured has been released.
C13_OverwrittenFunctionIsDestroyed ==
    [][(lastOp'.op \in {"define", "assign"} /\ Overwritten(lastOp') # 0)
          => /\ funcs'[Overwritten(lastOp')].destroyed
             /\ Overwritten(lastOp') \notin activeFunctions'
             /\ ~funcs[Overwritten(lastOp')].destroyed
                   => scopes'[funcs[Overwritten(lastOp')].scope].refCount
                         <= scopes[funcs[Overwritten(lastOp')].scope].refCount
                               + NewCaptures(funcs[Overwritten(lastOp')].scope) - 1]_vars

\* the one function of the program, declared at top level, has been destroyed
\* by an assignment to its name while the program runs at top level
C13_Witness ==
    /\ status = "running"
    /\ Len(stack) = 1
    /\ lastOp.op = "assign"
    /\ lastOp.name = "f"
    /\ Len(funcs) = 1
    /\ funcs[1].ownerScope = 1
    /\ funcs[1].destroyed
    /\ 1 \notin activeFunctions

\* the heap after the release of the scope of every open construct from
\* frame i outwards: what the finally clauses do that a fault passes through
RECURSIVE Unwound(_, _)
Unwound(h, i) ==
    IF i = 0 THEN h
    ELSE Unwound(IF stack[i].own # 0 THEN release(h, stack[i].own) ELSE h, i - 1)

\* C14: the call of a destroyed function faults before any activation exists:
\* the error is raised, no environment is constructed, and no reference count
\* and no tracker set changes but by the releases of the constructs that the
\* fault leaves.
C14_DestroyedCallFaultsBeforeActivation ==
    [][lastOp'.op = "call-destroyed"
          => /\ status' = "failed"
             /\ stack' = <<>>
             /\ Len(scopes') = Len(scopes)
             /\ Len(funcs') = Len(funcs)
             /\ Heap' = Unwound(Heap, Len(stack))]_vars

\* the program has failed on the call of a destroyed function
C14_Witness ==
    /\ status = "failed"
    /\ lastOp.op = "call-destroyed"
    /\ \E f \in 1..Len(funcs) : funcs[f].destroyed

C16_TopLevelNamesReachGlobals ==
    [][lastOp'.op = "end"
          => /\ status' = "done"
             /\ \A name \in MapKeys(scopes[stack[1].env].variables) :
                   /\ MapHas(globalObj', name)
                   /\ MapGet(globalObj', name)
                         = MapGet(scopes[stack[1].env].variables, name)]_vars

\* the program has completed after it replaced the value of a name of the
\* caller's table, and the table has a function the program declared
C16_Witness ==
    /\ status = "done"
    /\ MapHas(globalObj, "x")
    /\ MapGet(globalObj, "x") # Num(1)
    /\ MapGet(globalObj, "f")[1] = "function"

\* function g was made in the body of an iteration of a for loop: the scope
\* it captured is a child of a scope that declares the loop variable
MadeInLoop(g) ==
    /\ scopes[funcs[g].scope].parent # 0
    /\ MapHas(scopes[scopes[funcs[g].scope].parent].variables, "i")

\* the number of the iteration whose body made function g: the bodies of a
\* loop at top level take the scopes that follow the scope of the loop
IterationOf(g) == funcs[g].scope - scopes[funcs[g].scope].parent

\* C17: the functions made in different iterations of for (let i = 0; ...;
\* i++) each see the value i had in their own iteration: the body of the
\* function of the k-th iteration reads the k-th value of i, k - 1, not the
\* final one.
C17_ClosureSeesItsIterationsValue ==
    [][(/\ lastOp'.op = "identifier"
        /\ lastOp'.name = "i"
        /\ InnermostCall # 0
        /\ MadeInLoop(stack[InnermostCall].fn))
          => acc' = Num(IterationOf(stack[InnermostCall].fn) - 1)]_vars

\* only blocks, loops and switch statements are open inside the innermost
\* activation
OnlyNestingInsideCall ==
    /\ InnermostCall # 0
    /\ \A j \in (InnermostCall + 1)..Len(stack) :
          stack[j].kind \in {"block", "loop", "iteration", "switch"}

\* no function has captured a scope made since the innermost activation began
NothingCapturedSinceCall ==
    \A f \in 1..Len(funcs) : funcs[f].scope < stack[InnermostCall].env

\* C18: a Return raised inside any nesting of blocks, loops and switch
\* statements of a function body reaches the call boundary with its value,
\* and when the call returns every environment made since the activation
\* began, the activation included, has been released: with no function
\* holding on to any of them, none is live any more.
C18_ReturnUnwindsToCallBoundary ==
    [][(lastOp'.op = "return" /\ OnlyNestingInsideCall)
          => /\ status' = "running"
             /\ stack' = SubSeq(stack, 1, InnermostCall - 1)
             /\ acc' \in {Num(1), Undefined, acc}
             /\ NothingCapturedSinceCall
                   => \A s \in stack[InnermostCall].env..Len(scopes) :
                         s \notin activeScopes']_vars

\* the operand reads or writes x
Accesses(node) == node.type \in {"Identifier", "UpdateExpression", "AssignmentExpression"}

\* the operand writes x
Writes(node) == node.type \in {"UpdateExpression", "AssignmentExpression"}

\* C19: no two evaluations in flight at the same time work on the same
\* mutable activation environment: while an operand evaluation of a binary
\* expression is suspended with a write of a local variable still to come, the
\* other operand's evaluation neither has read or written that variable nor
\* is going to.
C19_OperandsDoNotInterleave ==
    \A a \in DOMAIN inflight, b \in DOMAIN inflight :
        (/\ a # b
         /\ InCall
         /\ ~FreeInBody("x")
         /\ inflight[a].state = "suspended"
         /\ Writes(inflight[a].node))
           => ~Accesses(inflight[b].node)

\* a value but for the identity of a function
Indistinct(v) == IF v[1] = "function" THEN Wrapper(0) ELSE v

\* two tables with the same names and, but for the identity of functions, the
\* same values
SameTable(g1, g2) ==
    /\ MapKeys(g1) = MapKeys(g2)
    /\ \A name \in MapKeys(g1) :
          Indistinct(MapGet(g1, name)) = Indistinct(MapGet(g2, name))

\* C20: a program without await, throw and nondeterministic host calls, run
\* twice in succession with the same globals table, gives equal results and
\* equal final globals: when both runs have completed, the second has the
\* result and the final table of the first.
C20_SecondRunEqualsFirst ==
    (/\ session.run = 2
     /\ status = "done"
     /\ session.first.status = "done")
       => /\ Indistinct(acc) = Indistinct(session.first.acc)
          /\ SameTable(globalObj, session.first.globals)

\* the elements of a pattern, at either depth, that carry a default value
DefaultElements(pattern) ==
    {pattern.items[i] : i \in {k \in 1..Len(pattern.items) :
                                  pattern.items[k].type = "AssignmentPattern"}}
        \cup {pattern.items[i].items[1] :
                 i \in {k \in 1..Len(pattern.items) :
                           /\ pattern.items[k].items # <<>>
                           /\ pattern.items[k].items[1].type = "AssignmentPattern"}}

\* a handler has just bound a pattern
BoundPattern == lastOp.op \in {"declare-pattern", "call-pattern"}

\* C21: whenever a pattern that a declaration or a call has just bound holds an
\* element with a default value, in an object pattern or an array pattern, the
\* binding has faulted and no name of such an element has been bound.
C21_DefaultInPatternFaults ==
    (BoundPattern /\ DefaultElements(lastOp.pattern) # {})
        => /\ ~lastOp.ok
           /\ status = "failed"
           /\ \A el \in DefaultElements(lastOp.pattern) : el.name \notin lastOp.defs

\* the constructs that are open hold these environments
OpenEnvs == {stack[i].env : i \in 1..Len(stack)}

\* the references on s that are not its creator's: one for each child that
\* has not been cleaned up, one for each function that captures s and has
\* not been destroyed
Holders(s) ==
    Cardinality({c \in 1..Len(scopes) :
                    scopes[c].parent = s /\ c \in Range(scopes[s].children)})
        + Cardinality({f \in 1..Len(funcs) : funcs[f].scope = s /\ ~funcs[f].destroyed})

\* C22: every environment created for a block, a function body, a catch
\* clause or a loop has been released exactly once by the construct that
\* created it when that construct has exited, normally or by a signal: of an
\* environment that no open construct holds, the reference count is the
\* number of its other holders.
C22_CreatorReleasesExactlyOnce ==
    \A s \in 1..Len(scopes) : s \notin OpenEnvs => scopes[s].refCount = Holders(s)

\* the functions that scope s holds in a variable and that captured s itself
SelfCaptured(s) ==
    {f \in 1..Len(funcs) :
        /\ funcs[f].scope = s
        /\ ~funcs[f].destroyed
        /\ \E i \in 1..Len(scopes[s].variables) :
              scopes[s].variables[i][2] = Wrapper(f)}

\* C23: when a block's environment holds a function that captured that same
\* environment, the release by the block's exit breaks the cycle: the
\* function is destroyed, and the environment is torn down (no longer live,
\* its variables cleared) and has released its parent link.
C23_ReleaseBreaksSelfCaptureCycle ==
    [][(lastOp'.op = "block-exit" /\ SelfCaptured(CurScope) # {})
          => /\ \A f \in SelfCaptured(CurScope) :
                   funcs'[f].destroyed /\ f \notin activeFunctions'
             /\ CurScope \notin activeScopes'
             /\ scopes'[CurScope].variables = <<>>
             /\ CurScope \notin Range(scopes'[scopes[CurScope].parent].children)]_vars

\* the functions the step destroys
DestroyedByStep ==
    {f \in 1..Len(funcs) : ~funcs[f].destroyed /\ funcs'[f].destroyed}

\* C24: a user function is destroyed only by the overwriting of a binding
\* that holds it or by the destruction of the environment that owns it; in
\* particular the release of a callee's activation, or of another environment,
\* in which the function is bound as an argument or as an alias leaves it
\* alive under its original binding.
C24_AliasReleaseKeepsFunctionAlive ==
    [][\A f \in DestroyedByStep :
          \/ lastOp'.op \in {"define", "assign"} /\ Overwritten(lastOp') = f
          \/ funcs[f].ownerScope \notin activeScopes']_vars

\* the frames below the innermost activation that run class members
EnclosingMembers == {j \in 1..(InnermostCall - 1) : stack[j].cls # 0}

\* the step ends the class member that runs innermost and leaves its caller
\* running
MemberExits ==
    /\ InMember
    /\ Len(stack') < InnermostCall
    /\ status' = "running"

\* the context of the member that made the call: its receiver and the
\* superclass of its class; none at the top level of the program, where
\* evaluateAST's variable holds the null it starts with
CallerContext ==
    IF EnclosingMembers = {}
    THEN NullContext
    ELSE LET j == CHOOSE k \in EnclosingMembers : \A l \in EnclosingMembers : l <= k
         IN  ClassContext(stack[j].recv, classes[stack[j].cls].superClass)

\* C25: the class context is saved and restored across nested method calls:
\* when a method called from the body of another method exits, the current
\* class context is the calling method's receiver and superclass again, and
\* when the outermost method exits it is the context from before that call.
C25_ClassContextRestoredOnExit ==
    [][MemberExits => currentClassContext' = CallerContext]_vars

\* the labels of the labelled statements open in the nest st, outermost first
LabelsEntered(st) ==
    [i \in 1..Len(SelectSeq(st, LAMBDA fr : fr.kind = "labeled")) |->
        SelectSeq(st, LAMBDA fr : fr.kind = "labeled")[i].label]

\* the nests of the evaluate() calls in flight
Nests == {stack} \cup {suspended[k].stack : k \in 1..Len(suspended)}

\* C26: the label stack is per evaluation: what the evaluation that runs finds
\* on it are the labels of the labelled statements that this same evaluation
\* has entered and not yet exited, whatever path the exited ones took, and no
\* loop has read as its current label a label that another evaluation in
\* flight pushed.
C26_LabelStackIsPerEvaluation ==
    /\ status = "running" => labelStack = LabelsEntered(stack)
    /\ \A st \in Nests :
          \A i \in 1..Len(st) :
             st[i].kind = "loop" => st[i].label \in {""} \cup Range(LabelsEntered(st))

\* C27: a function is destroyed at most once.  From any state the program
\* reaches, the first destroy() of a live function takes exactly one
\* reference off the environment it captured and takes the function out of
\* the tracker, and every further destroy() of it (from a binding overwrite,
\* from the cleanup of a variable slot or of a tracking set) changes nothing:
\* no reference count and no tracker set moves again.
C27_DestroyActsOnce ==
    \A f \in 1..Len(funcs) :
       \E once \in {destroy(Heap, f)} :
          /\ destroy(once, f) = once
          /\ once.funcs[f].destroyed
          /\ f \notin once.activeFunctions
          /\ funcs[f].destroyed => once = Heap
          /\ ~funcs[f].destroyed
                => /\ once.scopes[funcs[f].scope].refCount
                         = scopes[funcs[f].scope].refCount - 1
                   /\ f \in activeFunctions

\* a function that the program has destroyed is still held by a variable of
\* a live scope, whose cleanup will call destroy() on it again
C27_Witness ==
    \E f \in 1..Len(funcs), s \in activeScopes :
       /\ funcs[f].destroyed
       /\ \E i \in 1..Len(scopes[s].variables) : scopes[s].variables[i][2] = Wrapper(f)
       /\ destroy(Heap, f) = Heap

\* the nearest scope of the chain from s that binds name, 0 when none does
RECURSIVE Nearest(_, _, _)
Nearest(h, s, name) ==
    IF MapHas(h.scopes[s].variables, name) THEN s
    ELSE IF h.scopes[s].parent # 0 THEN Nearest(h, h.scopes[s].parent, name)
    ELSE 0

\* the scopes of the chain from s
RECURSIVE Chain(_, _)
Chain(h, s) == IF s = 0 THEN {} ELSE {s} \cup Chain(h, h.scopes[s].parent)

\* the step is an assignment, and it hits exactly when a scope of the chain
\* binds the name
AssignHits ==
    /\ lastOp'.op \in {"assign", "assign-miss"}
    /\ (lastOp'.op = "assign") <=> (Nearest(Heap, CurScope, lastOp'.name) # 0)

\* the assignment, which hit in scope t, has overwritten the binding of the
\* name there, has left the other names of t alone, and has made no binding
\* in the scope it was issued in
WritesBinder(t) ==
    /\ MapGet(scopes'[t].variables, lastOp'.name) = acc'
    /\ MapKeys(scopes'[t].variables) = MapKeys(scopes[t].variables)
    /\ \A n \in MapKeys(scopes[t].variables) \ {lastOp'.name} :
          MapGet(scopes'[t].variables, n) = MapGet(scopes[t].variables, n)
    /\ t # CurScope => ~MapHas(scopes'[CurScope].variables, lastOp'.name)

\* the step has torn scope u down
TornDown(u) ==
    /\ u \in activeScopes
    /\ u \notin activeScopes'
    /\ scopes'[u].variables = <<>>

\* C28, as stated: assign(name, v) that hits overwrites the binding only in
\* the nearest scope of the chain that binds name, returns true, leaves the
\* bindings of every other scope unchanged, and creates no binding for name
\* in the scope where the assignment was issued.
C28_AssignLeavesEveryOtherScope ==
    [][lastOp'.op \in {"assign", "assign-miss"}
          => /\ AssignHits
             /\ lastOp'.op = "assign"
                   => \E t \in {Nearest(Heap, CurScope, lastOp'.name)} :
                         /\ WritesBinder(t)
                         /\ \A u \in (1..Len(scopes)) \ {t} :
                               scopes'[u].variables = scopes[u].variables]_vars

\* C28, amended: assign(name, v) that hits overwrites the binding only in the
\* nearest scope of the chain that binds name, returns true, creates no
\* binding for name in the scope where the assignment was issued, and leaves
\* the bindings of every other scope unchanged, but for scopes off the chain
\* that the destruction of the overwritten function tears down.
C28_AssignWritesNearestBinderOnly ==
    [][lastOp'.op \in {"assign", "assign-miss"}
          => /\ AssignHits
             /\ lastOp'.op = "assign"
                   => \E t \in {Nearest(Heap, CurScope, lastOp'.name)} :
                         /\ WritesBinder(t)
                         /\ \A u \in (1..Len(scopes)) \ {t} :
                               \/ scopes'[u].variables = scopes[u].variables
                               \/ /\ u \notin Chain(Heap, CurScope)
                                  /\ Overwritten(lastOp') # 0
                                  /\ TornDown(u)]_vars

\* an assignment issued in a block has hit a binding of the root scope, which
\* held a function
C28_Witness ==
    /\ status = "running"
    /\ lastOp.op = "assign"
    /\ Len(stack) = 2
    /\ ~MapHas(scopes[CurScope].variables, lastOp.name)
    /\ MapGet(scopes[1].variables, lastOp.name) = acc
    /\ Len(funcs) = 1
    /\ funcs[1].destroyed

\* cleanup has run on scope s: Scope.release calls it when, and only when,
\* the count of s reaches zero
CleanedUp(s) == scopes[s].refCount <= 0

\* C29: in every reachable state (reset() is never called) the tracker's set
\* of live environments is exactly the set of the environments constructed
\* and not yet cleaned up, and its set of live functions is exactly the set
\* of the functions constructed and not yet destroyed.
C29_TrackerHoldsExactlyTheLive ==
    /\ activeScopes = {s \in 1..Len(scopes) : ~CleanedUp(s)}
    /\ activeFunctions = {f \in 1..Len(funcs) : ~funcs[f].destroyed}

\* a scope has been cleaned up and a function destroyed while another scope
\* and another function live on
C29_Witness ==
    /\ \E s \in 1..Len(scopes) : CleanedUp(s) /\ scopes[s].variables = <<>>
    /\ \E f \in 1..Len(funcs) : funcs[f].destroyed
    /\ activeScopes # {}
    /\ activeFunctions # {}

\* the undestroyed functions that capture s, and the children of s that have
\* not been cleaned up
LiveCaptures(s) == {f \in 1..Len(funcs) : funcs[f].scope = s /\ ~funcs[f].destroyed}
LiveChildren(s) == {c \in 1..Len(scopes) : scopes[c].parent = s /\ ~CleanedUp(c)}

\* C30: an environment is never cleaned up while an undestroyed function
\* captures it or while a child that has not been cleaned up has it as
\* parent: its reference count never becomes negative and stays at least the
\* number of such functions plus the number of such children.
C30_CountCoversCapturesAndChildren ==
    \A s \in 1..Len(scopes) :
       /\ scopes[s].refCount >= 0
       /\ scopes[s].refCount >= Cardinality(LiveCaptures(s)) + Cardinality(LiveChildren(s))
       /\ CleanedUp(s) => LiveCaptures(s) = {} /\ LiveChildren(s) = {}

\* a scope that its creator has released lives on, held by a function that
\* captured it, beside a scope that has been cleaned up
C30_Witness ==
    \E s \in 1..Len(scopes) :
       /\ s \notin OpenEnvs
       /\ LiveCaptures(s) # {}
       /\ scopes[s].refCount = Cardinality(LiveCaptures(s)) + Cardinality(LiveChildren(s))
       /\ \E t \in 1..Len(scopes) : CleanedUp(t)

====
